---- MODULE Spec2Model ----
(***************************************************************************)
(* State-machine model of the search index of lyifeng040-cmyk/searchTool   *)
(* (src/src/search_index.rs) together with the callers that drive it: the   *)
(* C ABI entry points of src/src/lib.rs and the change tracker loop of      *)
(* src/src/commands.rs.                                                     *)
(*                                                                         *)
(* Strings are sequences of one-character strings, so that case folding,   *)
(* substring, prefix and rfind('.') are computed and not assumed.  Slot     *)
(* indices are 0-based as in the Rust code: slot idx of the item vector is  *)
(* items[idx + 1].                                                          *)
(***************************************************************************)
EXTENDS Integers, Sequences, FiniteSets, TLC

VARIABLES
    items,            \* SearchIndex.items: Vec<IndexedItem>
    name_trie,        \* SearchIndex.name_trie: key (lowercase name) -> Vec<usize>
    ext_index,        \* SearchIndex.ext_index: lowercase extension -> Vec<usize>
    file_ref_map,     \* SearchIndex.file_ref_map: file_ref -> usize
    dirty,            \* SearchIndex.dirty
    blob,             \* contents of X:\.search_index.bin, or NoBlob
    add_file_blocked, \* an add_file call waits for name_trie.write() while
                      \* holding items.write() and its own name_trie guard
    pending_dirty,    \* remove calls that released the items lock and have
                      \* not yet written the dirty flag
    thread_call,      \* per thread: the SearchIndex method it runs, or Idle
    thread_pc,        \* per thread: how many lock steps of the method are done
    journal,          \* per volume: the records of its USN journal
    journal_id,       \* per volume: usn_journal_id of its journal
    DIR_CACHE,        \* drive -> DirCache {paths, journal_id, last_usn}
    last_usn,         \* the poller's last_usn
    current_usn,      \* the poller's current_usn
    poll_pc,          \* the poller sleeps, or is about to read the changes
    changes,          \* the changes of the last get_usn_changes call
    read_count,       \* per journal record: the polls that have read it
    dir_cache_file,   \* the file of save_dir_cache: empty, or one PersistDirCacheV1
    ffi_result,       \* what the last load_dir_cache call returned, if any
    SEARCH_INDICES,   \* drive -> the registered index
    index_file,       \* drive -> the index file .search_index.bin, if it exists
    file_count,       \* per volume: the files an enumeration finds
    reg_call,         \* per thread: its call of init or force rebuild
    scope,            \* search_files: the drives to search
    call_pc,          \* search_files: idle, spawned the search, or returned
    orch_pc,          \* the orchestrator task: where it is
    task_pc,          \* per drive: where its search task is
    task_rows,        \* per drive: the rows its search task has left to send
    channel,          \* the batches sent and not yet received (their sizes)
    total_count,      \* the counter total_count
    active_tasks,     \* the counter active_tasks
    events,           \* the events emitted to the window, in order
    build_drives,     \* build_index: the drives of the scope, in order
    build_i,          \* build_index: the position of the drive being rebuilt
    build_pc,         \* build_index: where the builder thread is
    built_count,      \* build_index: built_count
    failed_count,     \* build_index: failed_count
    build_events,     \* the events build_index emitted to the window, in order
    sink_open,        \* the window of search_files still exists
    mft_records,      \* the file records of the MFT of the enumerated volume
    indexed_items,    \* the items handed to SearchIndex::build
    enum_done,        \* the enumeration has been turned into items
    query_text,       \* the query string of a search
    volume_items,     \* the items of the searched volume, as runs of equal items
    parse_result,     \* what SearchSyntaxParser::parse returned for the query
    task_results,     \* the rows of the volume's search task after apply_filters
    query_pc,         \* the query is typed, parsed, or searched
    disk,             \* per followed file of the tracked volume: its name, if it exists
    batch_start,      \* last_usn at the start of the poll that read the last batch
    scan_pc,          \* scan_usn_journal_all: the call it is about to make, or where it ended
    med,              \* med.start_file_reference_number, the cursor of the next call
    scan_records,     \* records: the MftRecords collected so far
    last_call,        \* the last FSCTL_ENUM_USN_DATA call: its cursor and what it returned
    scan_failed,      \* the call of the enumeration that failed, if any
    init_returned,    \* what init_search_index_internal returned, if it has
    walk_records,     \* the records the pass runs over
    walk,             \* paths, skip and queue of the pass
    visits,           \* per file reference: how often the pass has taken it from the queue
    pollers,          \* per drive: last_usn of each polling task spawned for it
    applied,          \* per drive and journal position: how many tasks have applied the record
    rt_pc,            \* where the call is: idle, walk or done
    rt_left,          \* per search path: matching entries its walk has yet to yield
    rt_path,          \* position in search_paths of the walk in progress
    rt_results,       \* all_results.len()
    rt_batch,         \* batch.len()
    rt_rows,          \* rows of the search-batch events emitted so far
    rt_max_batch,     \* the largest search-batch event emitted so far
    rt_complete,      \* payload of the search-complete event, -1 before it
    rt_returned,      \* length of the returned list, -1 before the return
    dm_value,         \* the text after dm:, lowercased
    dm_outcome        \* the outcome of the computation of date_after, NoOutcome before it

\* the registered index and its blob
index_vars == <<items, name_trie, ext_index, file_ref_map, dirty, blob,
                add_file_blocked, pending_dirty>>

\* the threads inside the methods of one SearchIndex, lock by lock
lock_vars == <<thread_call, thread_pc>>

\* the journals, the directory cache and the poller of the tracked volume
tracker_vars == <<journal, journal_id, DIR_CACHE, last_usn, current_usn,
                  poll_pc, changes, read_count>>

\* the file of the directory cache
dir_file_vars == <<dir_cache_file, ffi_result>>

\* the registry of indices and the index files
registry_vars == <<SEARCH_INDICES, index_file, file_count, reg_call>>

\* one search_files call
search_vars == <<scope, call_pc, orch_pc, task_pc, task_rows, channel,
                 total_count, active_tasks, events>>

\* one build_index call
build_vars == <<build_drives, build_i, build_pc, built_count, failed_count,
                build_events>>

\* the window the events are emitted to
sink_vars == <<sink_open>>

\* one enumeration of a volume (init_search_index_internal)
enum_vars == <<mft_records, indexed_items, enum_done>>

\* one query against the items of one volume
query_vars == <<query_text, volume_items, parse_result, task_results, query_pc>>

\* the files of the tracked volume, and where the last batch of the poller began
fs_vars == <<disk, batch_start>>

\* one scan_usn_journal_all call inside init_search_index_internal
scan_vars == <<scan_pc, med, scan_records, last_call, scan_failed, init_returned>>

\* the breadth-first pass of init_search_index_internal, turn by turn
walk_vars == <<walk_records, walk, visits>>

\* the polling tasks spawned by start_file_monitoring calls
monitor_vars == <<pollers, applied>>

\* the state of a realtime_search call
realtime_vars == <<rt_pc, rt_left, rt_path, rt_results, rt_batch, rt_rows, rt_max_batch, rt_complete, rt_returned>>

\* the dm: value of a query and what extract_date computes from it
date_vars == <<dm_value, dm_outcome>>

vars ==
    <<index_vars, lock_vars, tracker_vars, dir_file_vars, registry_vars,
      search_vars, build_vars, sink_vars, enum_vars, query_vars, fs_vars,
      scan_vars, walk_vars, monitor_vars, realtime_vars, date_vars>>

\* what a step of each part of the model leaves alone
outside_index ==
    <<lock_vars, tracker_vars, dir_file_vars, registry_vars, search_vars,
      build_vars, sink_vars, enum_vars, query_vars, fs_vars, scan_vars,
      walk_vars, monitor_vars, realtime_vars, date_vars>>
outside_locks ==
    <<index_vars, tracker_vars, dir_file_vars, registry_vars, search_vars,
      build_vars, sink_vars, enum_vars, query_vars, fs_vars, scan_vars,
      walk_vars, monitor_vars, realtime_vars, date_vars>>
outside_tracker ==
    <<index_vars, lock_vars, dir_file_vars, registry_vars, search_vars,
      build_vars, sink_vars, enum_vars, query_vars, fs_vars, scan_vars,
      walk_vars, monitor_vars, realtime_vars, date_vars>>
outside_dir_cache ==
    <<index_vars, lock_vars, registry_vars, search_vars, build_vars,
      sink_vars, enum_vars, query_vars, fs_vars, scan_vars, walk_vars,
      monitor_vars, realtime_vars, date_vars>>
outside_sink ==
    <<index_vars, lock_vars, tracker_vars, dir_file_vars, registry_vars,
      search_vars, build_vars, enum_vars, query_vars, fs_vars, scan_vars,
      walk_vars, monitor_vars, realtime_vars, date_vars>>
outside_search ==
    <<index_vars, lock_vars, tracker_vars, dir_file_vars, build_vars,
      sink_vars, enum_vars, query_vars, fs_vars, scan_vars, walk_vars,
      monitor_vars, realtime_vars, date_vars>>
outside_build ==
    <<index_vars, lock_vars, tracker_vars, dir_file_vars, search_vars,
      sink_vars, enum_vars, query_vars, fs_vars, scan_vars, walk_vars,
      monitor_vars, realtime_vars, date_vars>>
outside_registry ==
    <<index_vars, lock_vars, tracker_vars, dir_file_vars, search_vars,
      build_vars, sink_vars, enum_vars, query_vars, fs_vars, scan_vars,
      walk_vars, monitor_vars, realtime_vars, date_vars>>
outside_enum_build ==
    <<lock_vars, tracker_vars, dir_file_vars, registry_vars, search_vars,
      build_vars, sink_vars, query_vars, fs_vars, scan_vars, walk_vars,
      monitor_vars, realtime_vars, date_vars>>
outside_query ==
    <<index_vars, lock_vars, tracker_vars, dir_file_vars, registry_vars,
      search_vars, build_vars, sink_vars, enum_vars, fs_vars, scan_vars,
      walk_vars, monitor_vars, realtime_vars, date_vars>>
outside_fs_journal ==
    <<index_vars, lock_vars, dir_file_vars, registry_vars, search_vars,
      build_vars, sink_vars, enum_vars, query_vars, scan_vars, walk_vars,
      monitor_vars, realtime_vars, date_vars>>
outside_track ==
    <<lock_vars, dir_file_vars, registry_vars, search_vars, build_vars,
      sink_vars, enum_vars, query_vars, fs_vars, scan_vars, walk_vars,
      monitor_vars, realtime_vars, date_vars>>
outside_scan ==
    <<index_vars, lock_vars, tracker_vars, dir_file_vars, registry_vars,
      search_vars, build_vars, sink_vars, enum_vars, query_vars, fs_vars,
      walk_vars, monitor_vars, realtime_vars, date_vars>>
outside_scan_build ==
    <<lock_vars, tracker_vars, dir_file_vars, search_vars, build_vars,
      sink_vars, query_vars, fs_vars, walk_vars, monitor_vars,
      realtime_vars, date_vars>>
outside_walk ==
    <<index_vars, lock_vars, tracker_vars, dir_file_vars, registry_vars,
      search_vars, build_vars, sink_vars, enum_vars, query_vars, fs_vars,
      scan_vars, monitor_vars, realtime_vars, date_vars>>
outside_monitor ==
    <<index_vars, lock_vars, tracker_vars, dir_file_vars, registry_vars,
      search_vars, build_vars, sink_vars, enum_vars, query_vars, fs_vars,
      scan_vars, walk_vars, realtime_vars, date_vars>>
outside_monitor_journal ==
    <<index_vars, lock_vars, dir_file_vars, registry_vars, search_vars,
      build_vars, sink_vars, enum_vars, query_vars, fs_vars, scan_vars,
      walk_vars, realtime_vars, date_vars>>
outside_realtime ==
    <<index_vars, lock_vars, tracker_vars, dir_file_vars, registry_vars,
      search_vars, build_vars, sink_vars, enum_vars, query_vars, fs_vars,
      scan_vars, walk_vars, monitor_vars, date_vars>>
outside_date ==
    <<index_vars, lock_vars, tracker_vars, dir_file_vars, registry_vars,
      search_vars, build_vars, sink_vars, enum_vars, query_vars, fs_vars,
      scan_vars, walk_vars, monitor_vars, realtime_vars>>

----------------------------------------------------------------------------
(* Bounds                                                                  *)

MaxItems == 2
MaxPending == 1
NumThreads == 2
MaxBatch == 3
MaxJournal == 3
MaxJournalId == 2
MaxFiles == 1

----------------------------------------------------------------------------
(* Strings                                                                 *)

EmptyString == << >>

ToLowerChar(c) ==
    CASE c = "A" -> "a"
      [] c = "B" -> "b"
      [] c = "C" -> "c"
      [] c = "D" -> "d"
      [] c = "E" -> "e"
      [] c = "F" -> "f"
      [] c = "G" -> "g"
      [] c = "H" -> "h"
      [] c = "I" -> "i"
      [] c = "J" -> "j"
      [] c = "K" -> "k"
      [] c = "L" -> "l"
      [] c = "M" -> "m"
      [] c = "N" -> "n"
      [] c = "O" -> "o"
      [] c = "P" -> "p"
      [] c = "Q" -> "q"
      [] c = "R" -> "r"
      [] c = "S" -> "s"
      [] c = "T" -> "t"
      [] c = "U" -> "u"
      [] c = "V" -> "v"
      [] c = "W" -> "w"
      [] c = "X" -> "x"
      [] c = "Y" -> "y"
      [] c = "Z" -> "z"
      [] OTHER -> c

to_lowercase(s) == [i \in 1..Len(s) |-> ToLowerChar(s[i])]

\* str::contains(pattern)
contains(s, p) ==
    \E i \in 0..(Len(s) - Len(p)) : SubSeq(s, i + 1, i + Len(p)) = p

\* str::starts_with(prefix)
starts_with(s, p) ==
    /\ Len(p) <= Len(s)
    /\ SubSeq(s, 1, Len(p)) = p

\* str::rfind(c): 1-based position of the last occurrence, 0 for None
rfind(s, c) ==
    LET hits == {i \in 1..Len(s) : s[i] = c}
    IN  IF hits = {} THEN 0 ELSE CHOOSE i \in hits : \A j \in hits : j <= i

\* path.replace('/', "\\")
replace_slash(s) == [i \in 1..Len(s) |-> IF s[i] = "/" THEN "\\" ELSE s[i]]

\* byte order of the characters used, for the iteration order of the trie
CharCode(c) ==
    CASE c = "." -> 46
      [] c = "/" -> 47
      [] c = ":" -> 58
      [] c = "A" -> 65
      [] c = "B" -> 66
      [] c = "C" -> 67
      [] c = "\\" -> 92
      [] c = "a" -> 97
      [] c = "b" -> 98
      [] c = "c" -> 99
      [] OTHER -> 127

\* lexicographic byte order on keys; a proper prefix comes first
RECURSIVE KeyLess(_, _)
KeyLess(s, t) ==
    IF s = << >> THEN t # << >>
    ELSE IF t = << >> THEN FALSE
    ELSE IF s[1] = t[1] THEN KeyLess(Tail(s), Tail(t))
    ELSE CharCode(s[1]) < CharCode(t[1])

RECURSIVE SortedKeys(_)
SortedKeys(S) ==
    IF S = {} THEN << >>
    ELSE LET m == CHOOSE k \in S : \A o \in S \ {k} : KeyLess(k, o)
         IN  <<m>> \o SortedKeys(S \ {m})

----------------------------------------------------------------------------
(* Indexed items                                                           *)

\* struct IndexedItem
IndexedItem(name, name_lower, path, file_ref, parent_ref, size, is_dir, mtime) ==
    [name |-> name, name_lower |-> name_lower, path |-> path,
     file_ref |-> file_ref, parent_ref |-> parent_ref, size |-> size,
     is_dir |-> is_dir, mtime |-> mtime]

\* a slot is a tombstone when its name is empty (search_prefix, item_count)
IsTombstone(item) == item.name = EmptyString

\* items.get(idx)
HasSlot(its, idx) == idx >= 0 /\ idx < Len(its)
At(its, idx) == its[idx + 1]

\* file reference of the volume root
RootRef == 5

VolumeRoot == <<"C", ":", "\\">>
NameAb == <<"A", ".", "b">>
NameLowerAb == <<"a", ".", "b">>
NameDir == <<"c">>
PathAb == VolumeRoot \o NameAb
PathDir == VolumeRoot \o NameDir
PathSub == PathDir \o <<"\\">> \o NameLowerAb

\* items as init_search_index_internal hands them to build: name_lower is
\* String::new(), file_ref and parent_ref come from the MFT record
MftItems ==
    { IndexedItem(NameAb, EmptyString, PathAb, 1, RootRef, 1, FALSE, 1),
      IndexedItem(NameLowerAb, EmptyString, PathSub, 2, 3, 1, FALSE, 2),
      IndexedItem(NameDir, EmptyString, PathDir, 3, RootRef, 0, TRUE, 0) }

\* enumerations of the volume: the MFT is read in ascending file reference
\* order and the parallel map keeps that order, so a build input is a
\* sequence of records with increasing file references, at most MaxItems long
RECURSIVE SeqsUpTo(_, _)
SeqsUpTo(S, n) ==
    IF n = 0 THEN { << >> }
    ELSE LET shorter == SeqsUpTo(S, n - 1)
         IN  shorter \cup { Append(q, x) : q \in shorter, x \in S }

BuildInputs ==
    { q \in SeqsUpTo(MftItems, MaxItems) :
        \A i, j \in 1..Len(q) : i < j => q[i].file_ref < q[j].file_ref }

\* arguments of the C ABI entry point index_add_file: name_lower is
\* String::new() and mtime is 0.0; the caller chooses the file reference
FfiAddInputs ==
    { IndexedItem(NameLowerAb, EmptyString, VolumeRoot \o NameLowerAb, 1, RootRef, 1, FALSE, 0) }

\* arguments of the C ABI entry point index_remove_file
RemoveRefs == {1, 2, 11}

----------------------------------------------------------------------------
(* Maps                                                                    *)

EmptyMap == << >>

MapPut(f, k, v) == [x \in (DOMAIN f) \cup {k} |-> IF x = k THEN v ELSE f[x]]

MapRemove(f, k) == [x \in (DOMAIN f) \ {k} |-> f[x]]

\* trie.get_mut(key).map(|v| v.push(idx)).unwrap_or_else(|| trie.insert(key, vec![idx]))
\* and ext_index.entry(key).or_insert_with(Vec::new).push(idx)
PushIndex(f, key, idx) ==
    IF key \in DOMAIN f
    THEN [f EXCEPT ![key] = Append(@, idx)]
    ELSE MapPut(f, key, <<idx>>)

\* if let Some(ext_pos) = item.name.rfind('.') { item.name[ext_pos + 1..].to_lowercase() }
HasExtension(name) == rfind(name, ".") # 0
ExtensionOf(name) == to_lowercase(SubSeq(name, rfind(name, ".") + 1, Len(name)))

IndexExtension(ext, name, idx) ==
    IF HasExtension(name) THEN PushIndex(ext, ExtensionOf(name), idx) ELSE ext

\* variant that keeps the name_lower the caller passed in
WithNameLower_Stale(item) == item

\* item.name_lower = item.name.to_lowercase()
WithNameLower(item) == [item EXCEPT !.name_lower = to_lowercase(item.name)]

\* the tombstone written by remove_file and remove_file_by_path
Tombstoned(item) ==
    [item EXCEPT !.name = EmptyString, !.path = EmptyString, !.size = 0]

----------------------------------------------------------------------------
(* SearchIndex::build                                                      *)

EmptyIndex ==
    [name_trie |-> EmptyMap, ext_index |-> EmptyMap,
     file_ref_map |-> EmptyMap, items |-> << >>]

\* one iteration of the loop of build, for the item at position idx
BuildStep(st, raw, idx) ==
    LET item == WithNameLower(raw)
    IN  [name_trie |-> PushIndex(st.name_trie, item.name_lower, idx),
         ext_index |-> IndexExtension(st.ext_index, item.name, idx),
         file_ref_map |-> MapPut(st.file_ref_map, item.file_ref, idx),
         items |-> Append(st.items, item)]

RECURSIVE BuildLoop(_, _, _)
BuildLoop(st, new_items, idx) ==
    IF idx >= Len(new_items) THEN st
    ELSE BuildLoop(BuildStep(st, At(new_items, idx), idx), new_items, idx + 1)

\* the index after build(new_items): the old contents are cleared first
BuildIndex(new_items) == BuildLoop(EmptyIndex, new_items, 0)

----------------------------------------------------------------------------
(* Persistence                                                             *)

\* the file is modelled as the set of its contents: empty when there is no file
NoBlob == {}

\* variant in which mtime is skipped as well and reads back as its default
SerializeItem_SkipMtime(item) ==
    [name |-> item.name, path |-> item.path, file_ref |-> item.file_ref,
     parent_ref |-> item.parent_ref, size |-> item.size,
     is_dir |-> item.is_dir, mtime |-> 0]

\* bincode::serialize(&*items): every slot, tombstones included, without the
\* #[serde(skip)] field name_lower
SerializeItem(item) ==
    [name |-> item.name, path |-> item.path, file_ref |-> item.file_ref,
     parent_ref |-> item.parent_ref, size |-> item.size,
     is_dir |-> item.is_dir, mtime |-> item.mtime]

Serialize(its) == [i \in 1..Len(its) |-> SerializeItem(its[i])]

\* bincode::deserialize: the skipped field takes String::default()
DeserializeItem(rec) ==
    IndexedItem(rec.name, EmptyString, rec.path, rec.file_ref, rec.parent_ref,
                rec.size, rec.is_dir, rec.mtime)

Deserialize(bytes) == [i \in 1..Len(bytes) |-> DeserializeItem(bytes[i])]

----------------------------------------------------------------------------
(* Queries, as functions of the index state                                *)

Min(a, b) == IF a <= b THEN a ELSE b

\* iterator.take(n)
Take(q, n) == SubSeq(q, 1, Min(n, Len(q)))

\* subtrie.values(): the index lists of the keys below the prefix, in key order
RECURSIVE ConcatValues(_, _)
ConcatValues(keys, f) ==
    IF keys = << >> THEN << >>
    ELSE f[Head(keys)] \o ConcatValues(Tail(keys), f)

\* variant that looks the key up exactly instead of taking its descendants
Descendants_ExactKey(trie, prefix_lower) ==
    IF prefix_lower \in DOMAIN trie THEN trie[prefix_lower] ELSE << >>

\* name_trie.get_raw_descendant(&prefix_lower), flattened
Descendants(trie, prefix_lower) ==
    ConcatValues(SortedKeys({k \in DOMAIN trie : starts_with(k, prefix_lower)}), trie)

\* the nested loops of search_prefix over the candidate slots from position i on
RECURSIVE PrefixScan(_, _, _, _, _)
PrefixScan(its, cands, i, results, max_results) ==
    IF i > Len(cands) THEN results
    ELSE LET idx == cands[i]
         IN  IF HasSlot(its, idx) /\ ~IsTombstone(At(its, idx))
             THEN LET pushed == Append(results, At(its, idx))
                  IN  IF Len(pushed) >= max_results THEN pushed
                      ELSE PrefixScan(its, cands, i + 1, pushed, max_results)
             ELSE PrefixScan(its, cands, i + 1, results, max_results)

search_prefix(prefix, max_results) ==
    PrefixScan(items, Descendants(name_trie, to_lowercase(prefix)), 1, << >>, max_results)

\* the filter of search_contains
ContainsFilter(item, pattern_lower) ==
    ~IsTombstone(item) /\ contains(item.name_lower, pattern_lower)

search_contains(pattern, max_results) ==
    LET pattern_lower == to_lowercase(pattern)
        Keep(item) == ContainsFilter(item, pattern_lower)
    IN  Take(SelectSeq(items, Keep), max_results)

\* indices.iter().take(max_results).filter_map(|&idx| items.get(idx).cloned())
RECURSIVE FilterMapGet(_, _)
FilterMapGet(its, indices) ==
    IF indices = << >> THEN << >>
    ELSE (IF HasSlot(its, Head(indices)) THEN <<At(its, Head(indices))>> ELSE << >>)
         \o FilterMapGet(its, Tail(indices))

search_by_extension(ext, max_results) ==
    LET ext_lower == to_lowercase(ext)
    IN  IF ext_lower \in DOMAIN ext_index
        THEN FilterMapGet(items, Take(ext_index[ext_lower], max_results))
        ELSE << >>

\* the loop of search_by_mtime_range from position i on
RECURSIVE MtimeScan(_, _, _, _, _, _)
MtimeScan(its, i, out, min_mtime, max_mtime, max_results) ==
    IF i > Len(its) THEN out
    ELSE IF its[i].mtime >= min_mtime /\ its[i].mtime <= max_mtime
         THEN LET pushed == Append(out, its[i])
              IN  IF Len(pushed) >= max_results THEN pushed
                  ELSE MtimeScan(its, i + 1, pushed, min_mtime, max_mtime, max_results)
         ELSE MtimeScan(its, i + 1, out, min_mtime, max_mtime, max_results)

search_by_mtime_range(min_mtime, max_mtime, max_results) ==
    MtimeScan(items, 1, << >>, min_mtime, max_mtime, max_results)

item_count == Cardinality({i \in 1..Len(items) : ~IsTombstone(items[i])})

is_dirty == dirty

----------------------------------------------------------------------------
(* Change tracker inputs (start_file_monitoring)                           *)

\* Path::new(&path).file_name()
FileName(path) == SubSeq(path, rfind(path, "\\") + 1, Len(path))

\* Path::new(&path).parent(): the root keeps its separator
ParentPath(path) ==
    LET pos == rfind(path, "\\")
    IN  IF pos <= Len(VolumeRoot) THEN SubSeq(path, 1, pos)
        ELSE SubSeq(path, 1, pos - 1)

\* DefaultHasher over the path string: distinct strings get distinct values,
\* outside the range of the MFT file references used here
PathHash(path) ==
    CASE path = PathAb -> 11
      [] path = PathSub -> 12
      [] path = PathDir -> 13
      [] path = VolumeRoot -> 15
      [] OTHER -> 19

\* what fs::metadata reports for a path that exists
FsSizes == {2}
FsMtimes == {2}

\* the item the tracker builds for an add or modify event
TrackerItem(path, size, mtime) ==
    IndexedItem(FileName(path), to_lowercase(FileName(path)), path,
                PathHash(path), PathHash(ParentPath(path)), size, FALSE, mtime)

\* change records handed over by get_usn_changes: 0 = remove, 1 = add,
\* 2 = update metadata
ChangeActions == {0, 1, 2}
ChangePaths == {PathAb}
Changes == [action : ChangeActions, path : ChangePaths]

\* paths passed to delete_file by the shell
DeletePaths == {PathAb, PathSub, <<"c", ":", "/", "c", "/", "A", ".", "B">>}

----------------------------------------------------------------------------
(* The locks of SearchIndex: one parking_lot::RwLock per field               *)

Threads == 1..NumThreads

Idle == [op |-> "idle", hit |-> TRUE]

\* a method call; hit tells whether the key, file_ref or path it looks up is
\* present, which decides the locks the method goes on to take
Calls ==
    [op : {"add_file", "remove_file", "remove_file_by_path"}, hit : BOOLEAN]
        \cup [op : {"build", "search_prefix", "search_by_extension",
                    "search_contains", "save_to_file"}, hit : {TRUE}]

Acq(lock, mode) == [kind |-> "acquire", lock |-> lock, mode |-> mode]
Rel(lock) == [kind |-> "release", lock |-> lock, mode |-> "none"]

\* the lock() / drop() steps of each method, in program order: a guard bound
\* with let lives to its drop() or to the end of the function (dropped in
\* reverse order of declaration); a temporary guard lives to the end of its
\* statement
LockSteps(call) ==
    CASE call.op = "build" ->
            <<Acq("name_trie", "write"), Acq("ext_index", "write"),
              Acq("file_ref_map", "write"), Acq("items", "write"),
              Acq("dirty", "write"), Rel("dirty"),
              Rel("items"), Rel("file_ref_map"), Rel("ext_index"),
              Rel("name_trie")>>
      [] call.op = "add_file" /\ call.hit ->
            <<Acq("items", "write"),
              Acq("name_trie", "write"), Rel("name_trie"),
              Acq("ext_index", "write"), Rel("ext_index"),
              Acq("file_ref_map", "write"), Rel("file_ref_map"),
              Acq("dirty", "write"), Rel("dirty"),
              Rel("items")>>
      [] call.op = "add_file" /\ ~call.hit ->
            <<Acq("items", "write"),
              Acq("name_trie", "write"), Acq("name_trie", "write"),
              Rel("name_trie"), Rel("name_trie"),
              Acq("ext_index", "write"), Rel("ext_index"),
              Acq("file_ref_map", "write"), Rel("file_ref_map"),
              Acq("dirty", "write"), Rel("dirty"),
              Rel("items")>>
      [] call.op = "remove_file" /\ call.hit ->
            <<Acq("file_ref_map", "write"), Rel("file_ref_map"),
              Acq("items", "write"), Rel("items"),
              Acq("dirty", "write"), Rel("dirty")>>
      [] call.op = "remove_file" /\ ~call.hit ->
            <<Acq("file_ref_map", "write"), Rel("file_ref_map")>>
      [] call.op = "remove_file_by_path" /\ call.hit ->
            <<Acq("items", "write"), Acq("file_ref_map", "write"),
              Rel("items"), Rel("file_ref_map"),
              Acq("dirty", "write"), Rel("dirty")>>
      [] call.op = "remove_file_by_path" /\ ~call.hit ->
            <<Acq("items", "write"), Acq("file_ref_map", "write"),
              Rel("items"), Rel("file_ref_map")>>
      [] call.op = "search_prefix" ->
            <<Acq("name_trie", "read"), Acq("items", "read"),
              Rel("items"), Rel("name_trie")>>
      [] call.op = "search_by_extension" ->
            <<Acq("ext_index", "read"), Acq("items", "read"),
              Rel("items"), Rel("ext_index")>>
      [] call.op = "search_contains" ->
            <<Acq("items", "read"), Rel("items")>>
      [] call.op = "save_to_file" ->
            <<Acq("items", "read"), Acq("dirty", "write"), Rel("dirty"),
              Rel("items")>>
      [] OTHER -> << >>

\* the step a thread is about to take
NextStep(t) == LockSteps(thread_call[t])[thread_pc[t] + 1]

\* the locks a thread holds after its first pc steps, as the set of
\* positions of the acquire steps not yet matched by a release
HeldAfter(steps, pc) ==
    {i \in 1..pc :
        /\ steps[i].kind = "acquire"
        /\ Cardinality({j \in (i + 1)..pc :
               steps[j].kind = "release" /\ steps[j].lock = steps[i].lock})
           < Cardinality({j \in i..pc :
               steps[j].kind = "acquire" /\ steps[j].lock = steps[i].lock})}

\* the modes in which thread t holds the lock
Holds(t, lock) ==
    LET steps == LockSteps(thread_call[t])
    IN  {steps[i].mode : i \in {j \in HeldAfter(steps, thread_pc[t]) :
                                    steps[j].lock = lock}}

\* RwLock: write() needs the lock free, read() needs it free of writers; the
\* lock is not reentrant, so a thread's own guard blocks it as well
Blockers(lock, mode) ==
    {u \in Threads :
        IF mode = "write" THEN Holds(u, lock) # {}
        ELSE "write" \in Holds(u, lock)}

LockInit ==
    /\ thread_call = [t \in Threads |-> Idle]
    /\ thread_pc = [t \in Threads |-> 0]

\* a thread enters a method of the registered index
call(t, c) ==
    /\ thread_call[t] = Idle
    /\ thread_call' = [thread_call EXCEPT ![t] = c]
    /\ thread_pc' = [thread_pc EXCEPT ![t] = 0]
    /\ UNCHANGED outside_locks

\* the thread's next step is a lock().  It is taken when the lock is
\* compatible with the guards that exist.
acquire(t) ==
    /\ thread_call[t] # Idle
    /\ NextStep(t).kind = "acquire"
    /\ Blockers(NextStep(t).lock, NextStep(t).mode) = {}
    /\ thread_pc' = [thread_pc EXCEPT ![t] = @ + 1]
    /\ UNCHANGED thread_call
    /\ UNCHANGED outside_locks

\* the thread's next step drops a guard; after the last one the method
\* returns
release(t) ==
    /\ thread_call[t] # Idle
    /\ NextStep(t).kind = "release"
    /\ IF thread_pc[t] + 1 = Len(LockSteps(thread_call[t]))
       THEN /\ thread_call' = [thread_call EXCEPT ![t] = Idle]
            /\ thread_pc' = [thread_pc EXCEPT ![t] = 0]
       ELSE /\ thread_pc' = [thread_pc EXCEPT ![t] = @ + 1]
            /\ UNCHANGED thread_call
    /\ UNCHANGED outside_locks

----------------------------------------------------------------------------
(* USN journal records and get_changes_since                               *)

Drives == {"C", "D"}

\* the volume whose journal the poller follows
TrackedDrive == "C"

\* the bits of reason_mask
ReasonBits ==
    {"FILE_CREATE", "FILE_DELETE", "DATA_EXTEND", "DATA_OVERWRITE",
     "RENAME_OLD_NAME", "RENAME_NEW_NAME", "CLOSE"}

\* a USN_RECORD_V2: reason is the set of its reason bits, file_ref the set
\* of the bit positions set in the 64-bit file reference number
UsnRecord(reason, file_ref, parent_ref, name, is_dir) ==
    [reason |-> reason, file_ref |-> file_ref, parent_ref |-> parent_ref,
     name |-> name, is_dir |-> is_dir]

\* struct FileChange
FileChange(action, is_dir, path) ==
    [action |-> action, is_dir |-> is_dir, path |-> path]

\* variant without the first test of the loop body: the if / else-if chain
\* alone
ReasonAction_Unfiltered(reason) ==
    IF "FILE_DELETE" \in reason \/ "RENAME_OLD_NAME" \in reason THEN {0}
    ELSE IF "RENAME_NEW_NAME" \in reason \/ "FILE_CREATE" \in reason THEN {1}
    ELSE IF reason \cap {"DATA_EXTEND", "DATA_OVERWRITE"} # {} THEN {2}
    ELSE {}

\* the action of a record as a set: empty when the record is passed over
\* (the first test of the loop body, then the if / else-if chain)
ReasonAction(reason) ==
    LET is_delete == "FILE_DELETE" \in reason
        is_rename_old == "RENAME_OLD_NAME" \in reason
        is_rename_new == "RENAME_NEW_NAME" \in reason
        is_create == "FILE_CREATE" \in reason
    IN  IF ~is_delete /\ ~is_rename_old /\ ~is_rename_new /\ "CLOSE" \notin reason
        THEN {}
        ELSE IF is_delete \/ is_rename_old THEN {0}
        ELSE IF is_rename_new \/ is_create THEN {1}
        ELSE IF reason \cap {"DATA_EXTEND", "DATA_OVERWRITE"} # {} THEN {2}
        ELSE {}

\* variant that keeps all 64 bits of the file reference number
Mask48_Unmasked(ref) == ref

\* x & 0xFFFFFFFFFFFF
Mask48(ref) == ref \cap (0..47)

\* the bit positions set in action as u64) << 56
ActionBits(action) ==
    CASE action = 1 -> {56}
      [] action = 2 -> {57}
      [] OTHER -> {}

\* ((action as u64) << 56) | file_ref
DedupKey(action, file_ref) == ActionBits(action) \cup file_ref

\* the name filter: nlen > 0 and the first byte is neither '.' nor '$'
NameAccepted(name) == name # EmptyString /\ name[1] # "." /\ name[1] # "$"

\* parent_path.trim_end_matches('\\')
RECURSIVE TrimEnd(_)
TrimEnd(path) ==
    IF path # EmptyString /\ path[Len(path)] = "\\"
    THEN TrimEnd(SubSeq(path, 1, Len(path) - 1))
    ELSE path

\* build_path_map over the directories of the volume: the root under
\* reference 5 and each directory under its own reference
DirPaths(d) ==
    LET root == <<d, ":", "\\">>
        dirs == {it \in MftItems : it.is_dir}
    IN  [r \in {RootRef} \cup {it.file_ref : it \in dirs} |->
            IF r = RootRef THEN root
            ELSE TrimEnd(root) \o <<"\\">> \o
                 (CHOOSE it \in dirs : it.file_ref = r).name]

\* path_buf of a record: the cached parent path, or the root when the
\* parent is not cached and the lookup by file reference finds nothing
RecordPath(rec, paths, d) ==
    (IF rec.parent_ref \in DOMAIN paths
     THEN TrimEnd(paths[rec.parent_ref])
     ELSE TrimEnd(<<d, ":", "\\">>))
        \o <<"\\">> \o rec.name

\* bytes.windows(12).any(|w| w.eq_ignore_ascii_case(b"$recycle.bin"))
is_recycle_bin_path(path) ==
    contains(to_lowercase(path),
             <<"$", "r", "e", "c", "y", "c", "l", "e", ".", "b", "i", "n">>)

\* the while loop of get_changes_since over the records read, from
\* position i on, with the keys seen and the changes pushed so far
RECURSIVE ReadRecords(_, _, _, _, _, _)
ReadRecords(records, i, seen, out, paths, d) ==
    IF i > Len(records) THEN out
    ELSE LET rec == records[i]
             acts == ReasonAction(rec.reason)
             path == RecordPath(rec, paths, d)
         IN  IF ~NameAccepted(rec.name) \/ acts = {} \/ is_recycle_bin_path(path)
             THEN ReadRecords(records, i + 1, seen, out, paths, d)
             ELSE LET action == CHOOSE a \in acts : TRUE
                      key == DedupKey(action, Mask48(rec.file_ref))
                  IN  IF key \in seen
                      THEN ReadRecords(records, i + 1, seen, out, paths, d)
                      ELSE ReadRecords(records, i + 1, seen \cup {key},
                               Append(out, FileChange(action, rec.is_dir, path)),
                               paths, d)

\* the records FSCTL_READ_USN_JOURNAL returns from start_usn on: the USN of
\* a record is its position in the journal
RecordsSince(d, start_usn) == SubSeq(journal[d], start_usn + 1, Len(journal[d]))

\* get_or_build_cache: the cached entry when it was built under the
\* journal identifier of the header and is not empty, else a new one
CacheAfter(d) ==
    IF /\ d \in DOMAIN DIR_CACHE
       /\ DIR_CACHE[d].journal_id = journal_id[d]
       /\ DOMAIN DIR_CACHE[d].paths # {}
    THEN DIR_CACHE
    ELSE MapPut(DIR_CACHE, d,
                [paths |-> DirPaths(d), journal_id |-> journal_id[d],
                 last_usn |-> Len(journal[d])])

\* get_next_usn: jd.next_usn
NextUsn(d) == Len(journal[d])

\* values of a file reference number: bit 0 or bit 1 of the record number,
\* with or without bits of the sequence number (bits 48..63)
RawRefs == { {0}, {1}, {0, 48}, {0, 56} }

\* names of the changed files
ChangedNames == { <<"a">>, <<"b">> }

\* one record for each combination of reason bits
AllReasonRecords ==
    { UsnRecord(reason, {0}, RootRef, <<"a">>, FALSE) :
        reason \in (SUBSET ReasonBits) \ {{}} }

\* records that meet in one batch: removals, additions and writes of the
\* same and of different files
BatchRecords ==
    { UsnRecord(reason, ref, RootRef, name, FALSE) :
        reason \in { {"FILE_DELETE", "CLOSE"}, {"RENAME_NEW_NAME"} },
        ref \in RawRefs, name \in ChangedNames }
      \cup { UsnRecord({"DATA_EXTEND", "CLOSE"}, {0}, 3, <<"a">>, FALSE),
             UsnRecord({"FILE_CREATE", "CLOSE"}, {1}, RootRef, <<".", "a">>, FALSE) }

\* journals handed to a single get_changes_since call
BatchJournals ==
    { <<rec>> : rec \in AllReasonRecords } \cup SeqsUpTo(BatchRecords, MaxBatch)

\* records the file system appends while the poller runs
PollRecords ==
    { UsnRecord({"FILE_CREATE", "CLOSE"}, {0}, RootRef, <<"a">>, FALSE),
      UsnRecord({"CLOSE"}, {1}, RootRef, <<"b">>, FALSE) }

----------------------------------------------------------------------------
(* The change tracker: one poller per volume (start_file_monitoring)       *)

TrackerInit ==
    /\ journal = [d \in Drives |-> << >>]
    /\ journal_id = [d \in Drives |-> 1]
    /\ DIR_CACHE = EmptyMap
    /\ last_usn = 0
    /\ current_usn = 0
    /\ poll_pc = "sleep"
    /\ changes = << >>
    /\ read_count = << >>

\* the file system appends a record to the journal of a volume
journal_append(d, rec) ==
    /\ Len(journal[d]) < MaxJournal
    /\ journal' = [journal EXCEPT ![d] = Append(@, rec)]
    /\ read_count' = IF d = TrackedDrive THEN Append(read_count, 0) ELSE read_count
    /\ UNCHANGED <<journal_id, DIR_CACHE, last_usn, current_usn, poll_pc, changes>>
    /\ UNCHANGED outside_tracker

\* the journal of a volume is deleted and created again: a new identifier,
\* and USNs that start again at 0
journal_recreate(d) ==
    /\ journal_id[d] < MaxJournalId
    /\ journal_id' = [journal_id EXCEPT ![d] = @ + 1]
    /\ journal' = [journal EXCEPT ![d] = << >>]
    /\ read_count' = IF d = TrackedDrive THEN << >> ELSE read_count
    /\ UNCHANGED <<DIR_CACHE, last_usn, current_usn, poll_pc, changes>>
    /\ UNCHANGED outside_tracker

\* the poller wakes up: get_current_usn (-1 when the query fails) and the
\* test current_usn > last_usn
poll_query ==
    /\ poll_pc = "sleep"
    /\ \E query_ok \in BOOLEAN :
        /\ current_usn' = IF query_ok THEN NextUsn(TrackedDrive) ELSE -1
        /\ poll_pc' = IF current_usn' > last_usn THEN "read" ELSE "sleep"
    /\ UNCHANGED <<journal, journal_id, DIR_CACHE, last_usn, changes, read_count>>
    /\ UNCHANGED outside_tracker

\* the positions of the journal that get_changes_since(d, start_usn) reads
PositionsSince(d, start_usn) == (start_usn + 1)..Len(journal[d])

\* the rest of the poll: get_usn_changes(drive, last_usn), whose changes go
\* to the change loop (apply_change), then last_usn = current_usn.  A failed
\* get_changes_since and one that finds last_usn >= jd.next_usn give an
\* empty list and leave DIR_CACHE alone.
poll_read ==
    /\ poll_pc = "read"
    /\ \E read_ok \in BOOLEAN :
        IF read_ok /\ last_usn < NextUsn(TrackedDrive)
        THEN /\ DIR_CACHE' = CacheAfter(TrackedDrive)
             /\ changes' = ReadRecords(RecordsSince(TrackedDrive, last_usn), 1, {},
                               << >>, CacheAfter(TrackedDrive)[TrackedDrive].paths,
                               TrackedDrive)
             /\ read_count' = [i \in 1..Len(read_count) |->
                                  IF i \in PositionsSince(TrackedDrive, last_usn)
                                  THEN read_count[i] + 1 ELSE read_count[i]]
        ELSE /\ changes' = << >>
             /\ UNCHANGED <<DIR_CACHE, read_count>>
    /\ last_usn' = current_usn
    /\ poll_pc' = "sleep"
    /\ UNCHANGED <<journal, journal_id, current_usn>>
    /\ UNCHANGED outside_tracker

----------------------------------------------------------------------------
(* The directory cache and its file: warmup, clear, save and load          *)

\* struct PersistDirCacheV1; paths is the Vec of (reference, path) pairs
PersistDirCacheV1(version, drive, id, paths) ==
    [version |-> version, drive |-> drive, journal_id |-> id, paths |-> paths]

\* the pairs save_dir_cache pushes for a path map
PathPairs(paths) == { <<k, paths[k]>> : k \in DOMAIN paths }

\* the map load_dir_cache builds by inserting the pairs
PathsFromPairs(pairs) ==
    [k \in {p[1] : p \in pairs} |-> (CHOOSE p \in pairs : p[1] = k)[2]]

\* files that were not written by this build for this volume state: other
\* versions, other drives, other journals
ForeignCacheFiles ==
    { PersistDirCacheV1(version, d, id, {<<RootRef, <<d, ":", "\\">>>>}) :
        version \in {1, 2}, d \in Drives, id \in 1..MaxJournalId }

\* variant of the checks of load_dir_cache without the journal identifier
CacheFileAccepted_AnyJournal(persisted, drive, journal_id_now) ==
    /\ persisted.version = 1
    /\ persisted.drive = drive

\* the three checks load_dir_cache makes on the deserialized file
CacheFileAccepted(persisted, drive, journal_id_now) ==
    /\ persisted.version = 1
    /\ persisted.drive = drive
    /\ persisted.journal_id = journal_id_now

DirFileInit ==
    /\ dir_cache_file = {}
    /\ ffi_result = {}

\* the file is written by something else than save_dir_cache (another
\* version of the program, a run on another volume)
dir_cache_file_replaced(persisted) ==
    /\ dir_cache_file' = {persisted}
    /\ UNCHANGED <<ffi_result, tracker_vars>>
    /\ UNCHANGED outside_dir_cache

clear_dir_cache(d) ==
    /\ DIR_CACHE' = MapRemove(DIR_CACHE, d)
    /\ UNCHANGED <<journal, journal_id, last_usn, current_usn, poll_pc, changes,
                   read_count, dir_cache_file, ffi_result>>
    /\ UNCHANGED outside_dir_cache

\* warmup_dir_cache: nothing to do when a non-empty map is cached, else
\* warmup_cache_internal, which may fail to open or query the volume
warmup_dir_cache(d) ==
    /\ \E ok \in BOOLEAN :
        IF (d \in DOMAIN DIR_CACHE /\ DOMAIN DIR_CACHE[d].paths # {}) \/ ~ok
        THEN UNCHANGED DIR_CACHE
        ELSE DIR_CACHE' = MapPut(DIR_CACHE, d,
                              [paths |-> DirPaths(d), journal_id |-> journal_id[d],
                               last_usn |-> NextUsn(d)])
    /\ UNCHANGED <<journal, journal_id, last_usn, current_usn, poll_pc, changes,
                   read_count, dir_cache_file, ffi_result>>
    /\ UNCHANGED outside_dir_cache

\* save_dir_cache: writes the cached map of the drive when it was built
\* under the journal identifier the volume has now
save_dir_cache(d) ==
    /\ \E query_ok \in BOOLEAN, write_ok \in BOOLEAN :
        IF /\ query_ok /\ write_ok
           /\ d \in DOMAIN DIR_CACHE
           /\ DIR_CACHE[d].journal_id = journal_id[d]
        THEN dir_cache_file' =
                 {PersistDirCacheV1(1, d, DIR_CACHE[d].journal_id,
                                    PathPairs(DIR_CACHE[d].paths))}
        ELSE UNCHANGED dir_cache_file
    /\ UNCHANGED <<ffi_result, tracker_vars>>
    /\ UNCHANGED outside_dir_cache

\* load_dir_cache: journal_id_now is 0 when the volume cannot be queried,
\* last_usn is -1 when get_current_usn fails
load_dir_cache(d) ==
    /\ \E query_ok \in BOOLEAN, usn_ok \in BOOLEAN :
        LET journal_id_now == IF query_ok THEN journal_id[d] ELSE 0
        IN  IF /\ journal_id_now # 0
               /\ dir_cache_file # {}
               /\ \A persisted \in dir_cache_file :
                      CacheFileAccepted(persisted, d, journal_id_now)
            THEN /\ DIR_CACHE' =
                        MapPut(DIR_CACHE, d,
                            [paths |-> PathsFromPairs(
                                 (CHOOSE persisted \in dir_cache_file : TRUE).paths),
                             journal_id |-> journal_id_now,
                             last_usn |-> IF usn_ok THEN NextUsn(d) ELSE -1])
                 /\ ffi_result' = {1}
            ELSE /\ UNCHANGED DIR_CACHE
                 /\ ffi_result' = {0}
    /\ UNCHANGED <<journal, journal_id, last_usn, current_usn, poll_pc, changes,
                   read_count, dir_cache_file>>
    /\ UNCHANGED outside_dir_cache

----------------------------------------------------------------------------
(* SEARCH_INDICES and the index files: init_search_index_internal and      *)
(* force_rebuild_search_index_internal                                     *)
(*                                                                         *)
(* An index is kept here by its item count and by where it came from; its  *)
(* structures are the subject of the other sections.  old_for holds the    *)
(* running forced rebuilds that were requested after the index, the file   *)
(* or the enumeration came into being; mutated tells whether the change    *)
(* tracker has applied a change to the index since it was made.            *)

\* an index after build over the enumeration of volume d
ScannedIndex(d) ==
    [item_count |-> file_count[d], from_file |-> FALSE, old_for |-> {},
     mutated |-> FALSE]

\* the file save_to_file writes for an index: the items alone; written_under
\* records the journal identifier the volume had at that moment
IndexFile(index, d) ==
    [item_count |-> index.item_count, written_under |-> journal_id[d],
     old_for |-> index.old_for]

\* an index after load_from_file
LoadedIndex(file) ==
    [item_count |-> file.item_count, from_file |-> TRUE, old_for |-> file.old_for,
     mutated |-> FALSE]

\* a thread sits in add_file for ever: it got there through
\* SEARCH_INDICES.read() and keeps that guard, so SEARCH_INDICES.write()
\* is never granted again
RegistryReadStuck == add_file_blocked

RegIdle == [op |-> "idle", pc |-> "idle", drive |-> TrackedDrive,
            built |-> {}, result |-> {}]

RegistryInit ==
    /\ SEARCH_INDICES = EmptyMap
    /\ index_file = EmptyMap
    /\ file_count = [d \in Drives |-> 0]
    /\ reg_call = [t \in Threads |-> RegIdle]

\* marks everything that exists now as older than the request of thread t
MarkOld(m, t) == [k \in DOMAIN m |-> [m[k] EXCEPT !.old_for = @ \cup {t}]]

\* forgets a finished request
Unmark(m, t) == [k \in DOMAIN m |-> [m[k] EXCEPT !.old_for = @ \ {t}]]

\* a file is created on the volume
volume_change(d) ==
    /\ file_count[d] < MaxFiles
    /\ file_count' = [file_count EXCEPT ![d] = @ + 1]
    /\ UNCHANGED <<SEARCH_INDICES, index_file, reg_call>>
    /\ UNCHANGED outside_registry

\* the program is started again: the memory is gone, the files stay
restart ==
    /\ SEARCH_INDICES' = EmptyMap
    /\ reg_call' = [t \in Threads |-> RegIdle]
    /\ index_file' = [d \in DOMAIN index_file |-> [index_file[d] EXCEPT !.old_for = {}]]
    /\ UNCHANGED file_count
    /\ UNCHANGED outside_registry

\* thread t enters init_search_index_internal(d) or
\* force_rebuild_search_index_internal(d): what it does to the registry
RegCallStarts(t, op, d) ==
    /\ reg_call[t].pc \in {"idle", "done"}
    /\ LET indices == Unmark(SEARCH_INDICES, t)
           files == Unmark(index_file, t)
           others == [u \in Threads |->
                         [reg_call[u] EXCEPT
                             !.built = {[b EXCEPT !.old_for = @ \ {t}] : b \in @}]]
       IN  IF op = "force"
           THEN /\ SEARCH_INDICES' = MarkOld(indices, t)
                /\ index_file' = MarkOld(files, t)
                /\ reg_call' =
                       [u \in Threads |->
                           IF u = t
                           THEN [op |-> op, pc |-> "delete", drive |-> d,
                                 built |-> {}, result |-> {}]
                           ELSE [others[u] EXCEPT
                                    !.built = {[b EXCEPT !.old_for = @ \cup {t}] : b \in @}]]
           ELSE /\ SEARCH_INDICES' = indices
                /\ index_file' = files
                /\ reg_call' =
                       [others EXCEPT ![t] = [op |-> op, pc |-> "check", drive |-> d,
                                             built |-> {}, result |-> {}]]

\* a call of one of the two functions by a thread of the program
reg_call_start(t, op, d) ==
    /\ RegCallStarts(t, op, d)
    /\ UNCHANGED file_count
    /\ UNCHANGED outside_registry

\* force rebuild: remove_file on the index file, whose failure is logged
force_delete(t) ==
    /\ reg_call[t].pc = "delete"
    /\ \E remove_ok \in BOOLEAN :
        index_file' = IF remove_ok THEN MapRemove(index_file, reg_call[t].drive)
                      ELSE index_file
    /\ reg_call' = [reg_call EXCEPT ![t].pc = "unregister"]
    /\ UNCHANGED <<SEARCH_INDICES, file_count>>
    /\ UNCHANGED outside_registry

\* force rebuild: SEARCH_INDICES.write().remove(&drive), then
\* init_search_index_internal
force_unregister(t) ==
    /\ reg_call[t].pc = "unregister"
    /\ ~RegistryReadStuck
    /\ SEARCH_INDICES' = MapRemove(SEARCH_INDICES, reg_call[t].drive)
    /\ reg_call' = [reg_call EXCEPT ![t].pc = "check"]
    /\ UNCHANGED <<index_file, file_count>>
    /\ UNCHANGED outside_registry

\* init: return true when the drive is registered
init_check(t) ==
    /\ reg_call[t].pc = "check"
    /\ reg_call' = IF reg_call[t].drive \in DOMAIN SEARCH_INDICES
                   THEN [reg_call EXCEPT ![t].pc = "done", ![t].result = {TRUE}]
                   ELSE [reg_call EXCEPT ![t].pc = "load"]
    /\ UNCHANGED <<SEARCH_INDICES, index_file, file_count>>
    /\ UNCHANGED outside_registry

\* init: when the index file exists and load_from_file succeeds the loaded
\* index is registered; otherwise the volume is enumerated
init_load(t) ==
    /\ reg_call[t].pc = "load"
    /\ LET d == reg_call[t].drive
       IN  \E load_ok \in BOOLEAN :
            IF d \in DOMAIN index_file /\ load_ok
            THEN /\ ~RegistryReadStuck
                 /\ SEARCH_INDICES' = MapPut(SEARCH_INDICES, d, LoadedIndex(index_file[d]))
                 /\ reg_call' = [reg_call EXCEPT ![t].pc = "done", ![t].result = {TRUE}]
            ELSE /\ UNCHANGED SEARCH_INDICES
                 /\ reg_call' = [reg_call EXCEPT ![t].pc = "scan"]
    /\ UNCHANGED <<index_file, file_count>>
    /\ UNCHANGED outside_registry

\* init: scan_usn_journal_all and build; false when the enumeration fails
init_scan(t) ==
    /\ reg_call[t].pc = "scan"
    /\ \E scan_ok \in BOOLEAN :
        reg_call' = IF scan_ok
                    THEN [reg_call EXCEPT ![t].pc = "insert",
                                          ![t].built = {ScannedIndex(reg_call[t].drive)}]
                    ELSE [reg_call EXCEPT ![t].pc = "done", ![t].result = {FALSE}]
    /\ UNCHANGED <<SEARCH_INDICES, index_file, file_count>>
    /\ UNCHANGED outside_registry

\* init: save_to_file, whose failure is dropped, and the insert
init_insert(t) ==
    /\ reg_call[t].pc = "insert"
    /\ ~RegistryReadStuck
    /\ LET d == reg_call[t].drive
           index == CHOOSE b \in reg_call[t].built : TRUE
       IN  /\ \E save_ok \in BOOLEAN :
                index_file' = IF save_ok THEN MapPut(index_file, d, IndexFile(index, d))
                              ELSE index_file
           /\ SEARCH_INDICES' = MapPut(SEARCH_INDICES, d, index)
    /\ reg_call' = [reg_call EXCEPT ![t].pc = "done", ![t].result = {TRUE},
                                    ![t].built = {}]
    /\ UNCHANGED file_count
    /\ UNCHANGED outside_registry

\* the change loop of the poller of drive d applies a change to the index
\* it finds registered: add_file or remove_file_by_path on that index
tracker_mutates(d) ==
    /\ d \in DOMAIN SEARCH_INDICES
    /\ ~SEARCH_INDICES[d].mutated
    /\ SEARCH_INDICES' = [SEARCH_INDICES EXCEPT ![d].mutated = TRUE]
    /\ UNCHANGED <<index_file, file_count, reg_call>>
    /\ UNCHANGED outside_registry

----------------------------------------------------------------------------
(* search_files: the caller, the orchestrator task it spawns and one       *)
(* search task per registered volume of the scope                          *)

\* const BATCH_SIZE
BATCH_SIZE == 100

\* numbers of rows a volume's search leaves after apply_filters: none, one
\* batch, a full batch, and more than one batch
RowCounts == {0, 1, BATCH_SIZE, BATCH_SIZE + 1}

\* let _ = window.emit(..): the event reaches the window when it exists,
\* the error is dropped when it does not
Emit(evs, ev) == IF sink_open THEN Append(evs, ev) ELSE evs

\* the caller closes the window the results are streamed to
sink_drop ==
    /\ sink_open
    /\ orch_pc \notin {"idle", "done"}
    /\ sink_open' = FALSE
    /\ UNCHANGED outside_sink

SearchInit ==
    /\ sink_open = TRUE
    /\ scope = {}
    /\ call_pc = "idle"
    /\ orch_pc = "idle"
    /\ task_pc = [d \in Drives |-> "none"]
    /\ task_rows = [d \in Drives |-> 0]
    /\ channel = << >>
    /\ total_count = 0
    /\ active_tasks = 0
    /\ events = << >>

\* search_files up to tokio::spawn: the drives of the scope, and for each
\* one that is not registered init_search_index_internal, which registers
\* an index or fails
search_files(drives) ==
    /\ call_pc = "idle"
    /\ scope' = drives
    /\ \E built \in SUBSET (drives \ DOMAIN SEARCH_INDICES) :
        SEARCH_INDICES' =
            [d \in DOMAIN SEARCH_INDICES \cup built |->
                IF d \in built THEN ScannedIndex(d) ELSE SEARCH_INDICES[d]]
    /\ call_pc' = "spawned"
    /\ orch_pc' = "spawn"
    /\ UNCHANGED <<task_pc, task_rows, channel, total_count, active_tasks, events>>
    /\ UNCHANGED <<index_file, file_count, reg_call>>
    /\ UNCHANGED outside_search

\* search_files returns Ok(Vec::new())
search_return ==
    /\ call_pc = "spawned"
    /\ call_pc' = "returned"
    /\ UNCHANGED <<scope, orch_pc, task_pc, task_rows, channel, total_count,
                   active_tasks, events>>
    /\ UNCHANGED registry_vars
    /\ UNCHANGED outside_search

\* the orchestrator: one task and one fetch_add for each drive of the scope
\* that is registered, then drop(tx)
orch_spawn_tasks ==
    /\ orch_pc = "spawn"
    /\ LET found == scope \cap DOMAIN SEARCH_INDICES
       IN  /\ task_pc' = [d \in Drives |-> IF d \in found THEN "search" ELSE "none"]
           /\ active_tasks' = Cardinality(found)
    /\ orch_pc' = "recv"
    /\ UNCHANGED <<scope, call_pc, task_rows, channel, total_count, events>>
    /\ UNCHANGED registry_vars
    /\ UNCHANGED outside_search

\* a search task: search_contains, which takes items.read() of the index,
\* and apply_filters
task_search(d) ==
    /\ task_pc[d] = "search"
    /\ ~(d = TrackedDrive /\ add_file_blocked)
    /\ \E rows \in RowCounts : task_rows' = [task_rows EXCEPT ![d] = rows]
    /\ task_pc' = [task_pc EXCEPT ![d] = "send"]
    /\ UNCHANGED <<scope, call_pc, orch_pc, channel, total_count, active_tasks, events>>
    /\ UNCHANGED registry_vars
    /\ UNCHANGED outside_search

\* a search task: the next chunk is counted and sent
task_send(d) ==
    /\ task_pc[d] = "send"
    /\ task_rows[d] > 0
    /\ LET batch == IF task_rows[d] > BATCH_SIZE THEN BATCH_SIZE ELSE task_rows[d]
       IN  /\ total_count' = total_count + batch
           /\ channel' = Append(channel, batch)
           /\ task_rows' = [task_rows EXCEPT ![d] = @ - batch]
    /\ UNCHANGED <<scope, call_pc, orch_pc, task_pc, active_tasks, events>>
    /\ UNCHANGED registry_vars
    /\ UNCHANGED outside_search

\* a search task: fetch_sub, and the task ends, which drops its sender
task_finish(d) ==
    /\ task_pc[d] = "send"
    /\ task_rows[d] = 0
    /\ active_tasks' = active_tasks - 1
    /\ task_pc' = [task_pc EXCEPT ![d] = "done"]
    /\ UNCHANGED <<scope, call_pc, orch_pc, task_rows, channel, total_count, events>>
    /\ UNCHANGED registry_vars
    /\ UNCHANGED outside_search

\* the orchestrator: rx.recv() gives a batch, emitted as search-batch
orch_recv ==
    /\ orch_pc = "recv"
    /\ channel # << >>
    /\ events' = Emit(events, [name |-> "search-batch", rows |-> Head(channel)])
    /\ channel' = Tail(channel)
    /\ UNCHANGED <<scope, call_pc, orch_pc, task_pc, task_rows, total_count, active_tasks>>
    /\ UNCHANGED registry_vars
    /\ UNCHANGED outside_search

\* the orchestrator: rx.recv() gives None once the channel is empty and
\* every sender is dropped
orch_recv_closed ==
    /\ orch_pc = "recv"
    /\ channel = << >>
    /\ \A d \in Drives : task_pc[d] \in {"none", "done"}
    /\ orch_pc' = "wait"
    /\ UNCHANGED <<scope, call_pc, task_pc, task_rows, channel, total_count,
                   active_tasks, events>>
    /\ UNCHANGED registry_vars
    /\ UNCHANGED outside_search

\* the orchestrator: active_tasks is 0, search-complete is emitted
orch_complete ==
    /\ orch_pc = "wait"
    /\ active_tasks = 0
    /\ events' = Emit(events, [name |-> "search-complete", rows |-> total_count])
    /\ orch_pc' = "done"
    /\ UNCHANGED <<scope, call_pc, task_pc, task_rows, channel, total_count, active_tasks>>
    /\ UNCHANGED registry_vars
    /\ UNCHANGED outside_search

----------------------------------------------------------------------------
(* build_index: the thread that rebuilds the drives of the scope in turn   *)

\* the thread build_index spawns
BuilderThread == 1

\* the payload of an index-building event
BuildingEvent(d, status) ==
    [name |-> "index-building", drive |-> d, status |-> status]

\* the payload of the index-rebuild-finished event
FinishedEvent(success, failed) ==
    [name |-> "index-rebuild-finished", success |-> success, failed |-> failed]

\* the drives of a scope, in the order they are rebuilt
BuildScopes == { <<"C">>, <<"D">>, <<"C", "D">>, <<"D", "C">> }

BuildInit ==
    /\ build_drives = << >>
    /\ build_i = 0
    /\ build_pc = "idle"
    /\ built_count = 0
    /\ failed_count = 0
    /\ build_events = << >>

\* build_index up to std::thread::spawn
build_index(drives) ==
    /\ build_pc = "idle"
    /\ build_drives' = drives
    /\ build_i' = 1
    /\ build_pc' = "next"
    /\ UNCHANGED <<built_count, failed_count, build_events>>
    /\ UNCHANGED registry_vars
    /\ UNCHANGED outside_build

\* the loop body up to the call: the building event, and
\* force_rebuild_search_index_internal is entered
build_begin_drive ==
    /\ build_pc = "next"
    /\ build_i <= Len(build_drives)
    /\ build_events' = Append(build_events, BuildingEvent(build_drives[build_i], "building"))
    /\ RegCallStarts(BuilderThread, "force", build_drives[build_i])
    /\ build_pc' = "rebuilding"
    /\ UNCHANGED <<build_drives, build_i, built_count, failed_count, file_count>>
    /\ UNCHANGED outside_build

\* force_rebuild_search_index_internal has returned: the count and the
\* completed or failed event
build_end_drive ==
    /\ build_pc = "rebuilding"
    /\ reg_call[BuilderThread].pc = "done"
    /\ IF reg_call[BuilderThread].result = {TRUE}
       THEN /\ built_count' = built_count + 1
            /\ build_events' =
                   Append(build_events, BuildingEvent(build_drives[build_i], "completed"))
            /\ UNCHANGED failed_count
       ELSE /\ failed_count' = failed_count + 1
            /\ build_events' =
                   Append(build_events, BuildingEvent(build_drives[build_i], "failed"))
            /\ UNCHANGED built_count
    /\ build_i' = build_i + 1
    /\ build_pc' = "next"
    /\ UNCHANGED build_drives
    /\ UNCHANGED registry_vars
    /\ UNCHANGED outside_build

\* after the loop: index-rebuild-finished
build_finish ==
    /\ build_pc = "next"
    /\ build_i > Len(build_drives)
    /\ build_events' = Append(build_events, FinishedEvent(built_count, failed_count))
    /\ build_pc' = "done"
    /\ UNCHANGED <<build_drives, build_i, built_count, failed_count>>
    /\ UNCHANGED registry_vars
    /\ UNCHANGED outside_build

----------------------------------------------------------------------------
(* One enumeration of a volume: scan_usn_journal_all and the part of       *)
(* init_search_index_internal that turns its records into indexed items    *)

MaxRecords == 3

\* const SKIP_DIRS
SKIP_DIRS ==
    { <<"w", "i", "n", "d", "o", "w", "s">>,
      <<"p", "r", "o", "g", "r", "a", "m", " ", "f", "i", "l", "e", "s">>,
      <<"p", "r", "o", "g", "r", "a", "m", " ", "f", "i", "l", "e", "s", " ", "(", "x", "8", "6", ")">>,
      <<"p", "r", "o", "g", "r", "a", "m", "d", "a", "t", "a">>,
      <<"s", "y", "s", "t", "e", "m", " ", "v", "o", "l", "u", "m", "e", " ", "i", "n", "f", "o", "r", "m", "a", "t", "i", "o", "n">>,
      <<"a", "p", "p", "d", "a", "t", "a">>,
      <<"b", "o", "o", "t">>,
      <<"n", "o", "d", "e", "_", "m", "o", "d", "u", "l", "e", "s">>,
      <<".", "g", "i", "t">>,
      <<"_", "_", "p", "y", "c", "a", "c", "h", "e", "_", "_">>,
      <<"s", "i", "t", "e", "-", "p", "a", "c", "k", "a", "g", "e", "s">>,
      <<"s", "y", "s">>,
      <<"r", "e", "c", "o", "v", "e", "r", "y">>,
      <<"c", "o", "n", "f", "i", "g", ".", "m", "s", "i">>,
      <<"$", "w", "i", "n", "d", "o", "w", "s", ".", "~", "b", "t">>,
      <<"$", "w", "i", "n", "d", "o", "w", "s", ".", "~", "w", "s">>,
      <<"c", "a", "c", "h", "e">>,
      <<"c", "a", "c", "h", "e", "s">>,
      <<"t", "e", "m", "p">>,
      <<"t", "m", "p">>,
      <<"l", "o", "g", "s">>,
      <<"l", "o", "g">>,
      <<".", "v", "s", "c", "o", "d", "e">>,
      <<".", "i", "d", "e", "a">>,
      <<".", "v", "s">>,
      <<"o", "b", "j">>,
      <<"b", "i", "n">>,
      <<"d", "e", "b", "u", "g">>,
      <<"r", "e", "l", "e", "a", "s", "e">>,
      <<"p", "a", "c", "k", "a", "g", "e", "s">>,
      <<".", "n", "u", "g", "e", "t">>,
      <<"b", "o", "w", "e", "r", "_", "c", "o", "m", "p", "o", "n", "e", "n", "t", "s">> }

\* const SKIP_EXTS
SKIP_EXTS ==
    { <<".", "l", "s", "p">>,
      <<".", "f", "a", "s">>,
      <<".", "l", "n", "k">>,
      <<".", "h", "t", "m", "l">>,
      <<".", "h", "t", "m">>,
      <<".", "x", "m", "l">>,
      <<".", "i", "n", "i">>,
      <<".", "l", "s", "p", "_", "b", "a", "k">>,
      <<".", "c", "u", "i", "x">>,
      <<".", "a", "r", "x">>,
      <<".", "c", "r", "x">>,
      <<".", "f", "x">>,
      <<".", "d", "b", "x">>,
      <<".", "k", "i", "d">>,
      <<".", "i", "c", "o">>,
      <<".", "r", "z">>,
      <<".", "d", "l", "l">>,
      <<".", "s", "y", "s">>,
      <<".", "t", "m", "p">>,
      <<".", "l", "o", "g">>,
      <<".", "d", "a", "t">>,
      <<".", "d", "b">>,
      <<".", "p", "d", "b">>,
      <<".", "o", "b", "j">>,
      <<".", "p", "y", "c">>,
      <<".", "c", "l", "a", "s", "s">>,
      <<".", "c", "a", "c", "h", "e">>,
      <<".", "l", "o", "c", "k">> }

\* struct MftRecord
MftRecord(filename, file_ref, parent_ref, is_dir) ==
    [filename |-> filename, file_ref |-> file_ref, parent_ref |-> parent_ref,
     is_dir |-> is_dir]

\* str::to_ascii_lowercase
to_ascii_lowercase(s) == [i \in 1..Len(s) |-> ToLowerChar(s[i])]

\* <[u8]>::eq_ignore_ascii_case
eq_ignore_ascii_case(a, b) == to_ascii_lowercase(a) = to_ascii_lowercase(b)

\* <[u8]>::windows(n)
windows(s, n) == { SubSeq(s, i, i + n - 1) : i \in 1..(Len(s) - n + 1) }

is_cad_path(s) ==
    \/ \E w \in windows(s, 6) :
           \/ eq_ignore_ascii_case(w, <<"c", "a", "d", "2", "0", "1">>)
           \/ eq_ignore_ascii_case(w, <<"c", "a", "d", "2", "0", "2">>)
    \/ \E w \in windows(s, 11) :
           \/ eq_ignore_ascii_case(w, <<"a", "u", "t", "o", "c", "a", "d", "_", "2", "0", "1">>)
           \/ eq_ignore_ascii_case(w, <<"a", "u", "t", "o", "c", "a", "d", "_", "2", "0", "2">>)
    \/ \E w \in windows(s, 7) :
           eq_ignore_ascii_case(w, <<"t", "a", "n", "g", "e", "n", "t">>)

\* variant that looks the name up in SKIP_DIRS only
should_skip_dir_ListOnly(name_lower) == name_lower \in SKIP_DIRS

should_skip_dir(name_lower) == name_lower \in SKIP_DIRS \/ is_cad_path(name_lower)

\* variant that compares the text after the dot
should_skip_ext_fast_AfterDot(filename) ==
    LET pos == rfind(filename, ".")
        ext == SubSeq(filename, pos + 1, Len(filename))
    IN  pos # 0 /\ Len(ext) <= 10 /\ to_ascii_lowercase(ext) \in SKIP_EXTS

\* ext = &filename[pos..] starts at the dot
should_skip_ext_fast(filename) ==
    LET pos == rfind(filename, ".")
        ext == SubSeq(filename, pos, Len(filename))
    IN  pos # 0 /\ Len(ext) <= 10 /\ to_ascii_lowercase(ext) \in SKIP_EXTS

\* scan_usn_journal_all keeps the records whose name is not empty and does
\* not start with '$' or '.', in the order of the enumeration
scan_usn_journal_all(entries) ==
    SelectSeq(entries, LAMBDA e : NameAccepted(e.filename))

\* p2c.get(&pid): the records whose parent_ref is pid, in record order
ChildrenOf(records, pid) == SelectSeq(records, LAMBDA r : r.parent_ref = pid)

\* the child of a directory that has a path: a directory is skipped or gets
\* its path, and is queued; a file is left alone
VisitChild(st, r, parent_trimmed) ==
    IF ~r.is_dir THEN st
    ELSE LET name_lower == to_ascii_lowercase(r.filename)
             marked ==
                 IF should_skip_dir(name_lower)
                 THEN [st EXCEPT !.skip = @ \cup {r.file_ref}]
                 ELSE [st EXCEPT !.paths =
                           MapPut(@, r.file_ref, parent_trimmed \o <<"\\">> \o r.filename)]
         IN  [marked EXCEPT !.queue = Append(@, r.file_ref)]

RECURSIVE VisitChildren(_, _, _)
VisitChildren(st, cs, parent_trimmed) ==
    IF cs = << >> THEN st
    ELSE VisitChildren(VisitChild(st, Head(cs), parent_trimmed), Tail(cs), parent_trimmed)

\* the children of a skipped record are all skipped and queued
SkipChildren(st, cs) ==
    [st EXCEPT !.skip = @ \cup {cs[i].file_ref : i \in DOMAIN cs},
               !.queue = @ \o [i \in DOMAIN cs |-> cs[i].file_ref]]

\* one turn of while let Some(pid) = queue.pop_front(): the children of a
\* skipped pid are skipped, a pid without a path is passed over, and the
\* children of a pid with a path are visited
WalkStep(st, records) ==
    LET pid == Head(st.queue)
        rest == [st EXCEPT !.queue = Tail(@)]
        cs == ChildrenOf(records, pid)
    IN  IF pid \in st.skip THEN SkipChildren(rest, cs)
        ELSE IF pid \notin DOMAIN st.paths THEN rest
        ELSE VisitChildren(rest, cs, TrimEnd(st.paths[pid]))

\* the loop, until the queue is empty
RECURSIVE WalkTree(_, _)
WalkTree(st, records) ==
    IF st.queue = << >> THEN st
    ELSE WalkTree(WalkStep(st, records), records)

\* the state the walk starts from: the root under file reference 5
WalkStart ==
    [paths |-> MapPut(EmptyMap, RootRef, VolumeRoot), skip |-> {}, queue |-> <<RootRef>>]

\* paths and skip after the walk from the root, file reference 5
PathMap(records) == WalkTree(WalkStart, records)

\* the closure of filter_map: whether a record becomes an item
Kept(r, st) ==
    /\ r.file_ref \notin st.skip
    /\ r.parent_ref \in DOMAIN st.paths
    /\ ~(~r.is_dir /\ should_skip_ext_fast(r.filename))

\* the item of a record that is kept; a file has the metadata
\* get_file_info_fast returns, here size 1 and mtime 1
ItemOf(r, st) ==
    IndexedItem(r.filename, EmptyString,
                TrimEnd(st.paths[r.parent_ref]) \o <<"\\">> \o r.filename,
                r.file_ref, r.parent_ref, IF r.is_dir THEN 0 ELSE 1, r.is_dir,
                IF r.is_dir THEN 0 ELSE 1)

\* let indexed_items = records.par_iter().filter_map(..).collect()
IndexedItems(records) ==
    LET st == PathMap(records)
        kept == SelectSeq(records, LAMBDA r : Kept(r, st))
    IN  [i \in 1..Len(kept) |-> ItemOf(kept[i], st)]

\* names of the entries of the volume: a plain directory, a directory of
\* SKIP_DIRS in mixed case, a directory with a CAD token in mixed case, a
\* directory of SKIP_DIRS the scan leaves out, a file with an extension of
\* SKIP_EXTS in mixed case, and a file named like a directory of SKIP_DIRS
EntryKinds ==
    { [filename |-> <<"a">>, is_dir |-> TRUE],
      [filename |-> <<"T", "e", "m", "p">>, is_dir |-> TRUE],
      [filename |-> <<"a", "C", "A", "D", "2", "0", "1">>, is_dir |-> TRUE],
      [filename |-> <<".", "g", "i", "t">>, is_dir |-> TRUE],
      [filename |-> <<"b", ".", "D", "L", "L">>, is_dir |-> FALSE],
      [filename |-> <<"t", "e", "m", "p">>, is_dir |-> FALSE] }

\* what the MFT holds under one file reference: nothing, or one entry whose
\* parent is the root or a lower reference, which may hold nothing
EntriesAt(ref) ==
    { << >> } \cup
    { <<MftRecord(k.filename, ref, p, k.is_dir)>> :
        k \in EntryKinds, p \in (1..(ref - 1)) \cup {RootRef} }

\* the volumes: the entries in ascending order of file reference
RECURSIVE VolumesFrom(_)
VolumesFrom(ref) ==
    IF ref > MaxRecords THEN { << >> }
    ELSE { e \o rest : e \in EntriesAt(ref), rest \in VolumesFrom(ref + 1) }

Volumes == VolumesFrom(1)

EnumIdle ==
    /\ mft_records = << >>
    /\ indexed_items = << >>
    /\ enum_done = FALSE

EnumInit ==
    /\ mft_records \in Volumes
    /\ indexed_items = << >>
    /\ enum_done = FALSE

\* init_search_index_internal from the scan to index.build(indexed_items)
scan_and_build ==
    /\ ~enum_done
    /\ LET new_items == IndexedItems(scan_usn_journal_all(mft_records))
           st == BuildIndex(new_items)
       IN  /\ indexed_items' = new_items
           /\ items' = st.items
           /\ name_trie' = st.name_trie
           /\ ext_index' = st.ext_index
           /\ file_ref_map' = st.file_ref_map
    /\ dirty' = TRUE
    /\ add_file_blocked' = FALSE
    /\ pending_dirty' = 0
    /\ enum_done' = TRUE
    /\ UNCHANGED <<mft_records, blob>>
    /\ UNCHANGED outside_enum_build

----------------------------------------------------------------------------
(* SearchSyntaxParser: the filters of a query (search_syntax.rs)           *)

Digits == {"0", "1", "2", "3", "4", "5", "6", "7", "8", "9"}
LowerLetters ==
    {"a", "b", "c", "d", "e", "f", "g", "h", "i", "j", "k", "l", "m",
     "n", "o", "p", "q", "r", "s", "t", "u", "v", "w", "x", "y", "z"}

IsDigit(c) == c \in Digits
\* the class [a-zA-Z0-9,]
IsExtChar(c) == c \in Digits \/ ToLowerChar(c) \in LowerLetters \/ c = ","
\* the class \S, over queries whose only whitespace is the space
IsNonSpace(c) == c # " "
\* the class [^"]
IsNonQuote(c) == c # "\""

\* the last position of the longest run of characters of a class that
\* starts at position i; i - 1 when the run is empty
RunEnd(text, i, Class(_)) ==
    LET ok == { j \in i..Len(text) : \A k \in i..j : Class(text[k]) }
    IN  IF ok = {} THEN i - 1 ELSE CHOOSE j \in ok : \A k \in ok : k <= j

\* a literal of a (?i) pattern at position i
LiteralAt(text, i, lit) ==
    /\ i + Len(lit) - 1 <= Len(text)
    /\ to_lowercase(SubSeq(text, i, i + Len(lit) - 1)) = lit

\* a literal followed by a non-empty run of a class, as long as it can be:
\* the last position of the match that starts at i, or 0
LiteralRunEnd(text, i, lit, Class(_)) ==
    IF LiteralAt(text, i, lit) /\ RunEnd(text, i + Len(lit), Class) >= i + Len(lit)
    THEN RunEnd(text, i + Len(lit), Class)
    ELSE 0

\* (?i)ext:([a-zA-Z0-9,]+)
ExtEnd(text, i) == LiteralRunEnd(text, i, <<"e", "x", "t", ":">>, IsExtChar)
\* (?i)dm:(\S+)
DateEnd(text, i) == LiteralRunEnd(text, i, <<"d", "m", ":">>, IsNonSpace)
\* (?i)path:(\S+)
PathEnd(text, i) == LiteralRunEnd(text, i, <<"p", "a", "t", "h", ":">>, IsNonSpace)
\* (?i)name:(\S+)
NameEnd(text, i) == LiteralRunEnd(text, i, <<"n", "a", "m", "e", ":">>, IsNonSpace)
\* (?i)path:"([^"]+)"
QuotedPathEnd(text, i) ==
    LET e == LiteralRunEnd(text, i, <<"p", "a", "t", "h", ":", "\"">>, IsNonQuote)
    IN  IF e # 0 /\ e < Len(text) /\ text[e + 1] = "\"" THEN e + 1 ELSE 0

UnitAt(text, j) ==
    /\ j + 1 <= Len(text)
    /\ to_lowercase(SubSeq(text, j, j + 1)) \in {<<"k", "b">>, <<"m", "b">>, <<"g", "b">>}

\* (?i)size:>(\d+(?:\.\d+)?)(kb|mb|gb), and the same with '<': the last
\* position of the number of the match that starts at i, or 0; the unit is
\* the two characters after it
SizeNumEnd(text, i, lit) ==
    LET d1 == RunEnd(text, i + Len(lit), IsDigit)
        d2 == IF d1 < Len(text) /\ text[d1 + 1] = "." THEN RunEnd(text, d1 + 2, IsDigit)
              ELSE d1
    IN  IF ~LiteralAt(text, i, lit) \/ d1 < i + Len(lit) THEN 0
        ELSE IF d2 >= d1 + 2 /\ UnitAt(text, d2 + 1) THEN d2
        ELSE IF UnitAt(text, d1 + 1) THEN d1
        ELSE 0

SizeEnd(text, i, lit) ==
    IF SizeNumEnd(text, i, lit) = 0 THEN 0 ELSE SizeNumEnd(text, i, lit) + 2

\* the matches of a pattern from left to right, none overlapping another:
\* ends[i] is the last position of the match that starts at i, or 0
RECURSIVE MatchStarts(_, _)
MatchStarts(ends, i) ==
    IF i > Len(ends) THEN << >>
    ELSE IF ends[i] # 0 THEN <<i>> \o MatchStarts(ends, ends[i] + 1)
    ELSE MatchStarts(ends, i + 1)

\* Regex::replace_all(text, "")
RECURSIVE ReplaceAll(_, _, _)
ReplaceAll(text, ends, i) ==
    IF i > Len(text) THEN << >>
    ELSE IF ends[i] # 0 THEN ReplaceAll(text, ends, ends[i] + 1)
    ELSE <<text[i]>> \o ReplaceAll(text, ends, i + 1)

\* str::split(sep)
RECURSIVE Split(_, _)
Split(s, sep) ==
    LET hits == { i \in 1..Len(s) : s[i] = sep }
        first == CHOOSE i \in hits : \A j \in hits : i <= j
    IN  IF hits = {} THEN <<s>>
        ELSE <<SubSeq(s, 1, first - 1)>> \o Split(SubSeq(s, first + 1, Len(s)), sep)

\* text.split_whitespace().collect::<Vec<_>>().join(" ")
RECURSIVE JoinWords(_)
JoinWords(ws) ==
    IF ws = << >> THEN << >>
    ELSE IF Len(ws) = 1 THEN ws[1]
    ELSE ws[1] \o <<" ">> \o JoinWords(Tail(ws))

CollapseSpaces(text) ==
    JoinWords(SelectSeq(Split(text, " "), LAMBDA w : w # << >>))

\* struct SearchFilters and its Default; date_after is the empty set for None
SearchFilters(ext, size_min, size_max, date_after, path, name_pattern) ==
    [ext |-> ext, size_min |-> size_min, size_max |-> size_max,
     date_after |-> date_after, path |-> path, name_pattern |-> name_pattern]

DefaultFilters == SearchFilters(<< >>, 0, 0, {}, EmptyString, EmptyString)

\* the extensions of one capture: split(','), trimmed and lowercased, the
\* empty ones left out (the class of the capture has no whitespace to trim)
CaptureExts(capture) ==
    SelectSeq([i \in 1..Len(Split(capture, ",")) |-> to_lowercase(Split(capture, ",")[i])],
              LAMBDA e : e # << >>)

RECURSIVE AllCaptureExts(_, _, _)
AllCaptureExts(text, ends, starts) ==
    IF starts = << >> THEN << >>
    ELSE CaptureExts(SubSeq(text, Head(starts) + 4, ends[Head(starts)]))
         \o AllCaptureExts(text, ends, Tail(starts))

\* each extract_* gives the text without the matches and the filters
extract_ext(text, filters) ==
    LET ends == [i \in 1..Len(text) |-> ExtEnd(text, i)]
    IN  [text |-> ReplaceAll(text, ends, 1),
         filters |-> [filters EXCEPT !.ext = @ \o AllCaptureExts(text, ends, MatchStarts(ends, 1))]]

RECURSIVE ParseDigits(_)
ParseDigits(ds) ==
    IF ds = << >> THEN 0
    ELSE 10 * ParseDigits(SubSeq(ds, 1, Len(ds) - 1))
         + (CHOOSE v \in 0..9 : <<"0", "1", "2", "3", "4", "5", "6", "7", "8", "9">>[v + 1] = ds[Len(ds)])

RECURSIVE PowerOfTen(_)
PowerOfTen(k) == IF k = 0 THEN 1 ELSE 10 * PowerOfTen(k - 1)

Multiplier(unit) ==
    CASE to_lowercase(unit) = <<"k", "b">> -> 1024
      [] to_lowercase(unit) = <<"m", "b">> -> 1024 * 1024
      [] to_lowercase(unit) = <<"g", "b">> -> 1024 * 1024 * 1024
      [] OTHER -> 1

\* parse_size of the number written num: (num * multiplier as f64) as u64
\* cuts the fraction of the product off
parse_size(num, unit) ==
    LET parts == Split(num, ".")
        whole == ParseDigits(parts[1])
        frac == IF Len(parts) > 1 THEN parts[2] ELSE << >>
    IN  whole * Multiplier(unit)
        + (ParseDigits(frac) * Multiplier(unit)) \div PowerOfTen(Len(frac))

\* the bound of the first match of size:> or size:<, or the bound as it was
SizeBound(text, lit, old) ==
    LET ends == [i \in 1..Len(text) |-> SizeEnd(text, i, lit)]
        starts == MatchStarts(ends, 1)
        s == Head(starts)
    IN  IF starts = << >> THEN old
        ELSE parse_size(SubSeq(text, s + Len(lit), ends[s] - 2),
                        SubSeq(text, ends[s] - 1, ends[s]))

extract_size(text, filters) ==
    LET min_lit == <<"s", "i", "z", "e", ":", ">">>
        max_lit == <<"s", "i", "z", "e", ":", "<">>
        without_min == ReplaceAll(text, [i \in 1..Len(text) |-> SizeEnd(text, i, min_lit)], 1)
        without_max == ReplaceAll(without_min,
                           [i \in 1..Len(without_min) |-> SizeEnd(without_min, i, max_lit)], 1)
    IN  [text |-> without_max,
         filters |-> [filters EXCEPT !.size_min = SizeBound(text, min_lit, @),
                                     !.size_max = SizeBound(without_min, max_lit, @)]]

\* SystemTime::now() in seconds since the epoch, at the time of the query
Now == 1700000000

secs_in_day == 86400

\* a - b on u64, a and b below 2^31: the difference, or on underflow a
\* panic (overflow checks on) or the wrapped value 2^64 - below
SubU64(a, b) ==
    IF b <= a
    THEN { [kind |-> "some", secs |-> a - b, below |-> 0] }
    ELSE { [kind |-> "panic", secs |-> 0, below |-> 0],
           [kind |-> "wrapped", secs |-> 0, below |-> b - a] }

\* now - n * unit on u64, for n * unit below 2^64; the product is not formed
\* where it exceeds now
SpanBack(n, unit) ==
    IF n <= Now \div unit
    THEN { [kind |-> "some", secs |-> Now - n * unit, below |-> 0] }
    ELSE { [kind |-> "panic", secs |-> 0, below |-> 0],
           [kind |-> "wrapped", secs |-> 0,
            below |-> (n - Now \div unit) * unit - (Now % unit)] }

\* what the match of extract_date computes for a dm: value: a named span, or
\* NUMd, NUMh, NUMm; empty for None
DateOutcomes(ds) ==
    LET n == ParseDigits(SubSeq(ds, 1, Len(ds) - 1))
        relative == /\ Len(ds) >= 2
                    /\ \A i \in 1..(Len(ds) - 1) : IsDigit(ds[i])
    IN  CASE ds = <<"t", "o", "d", "a", "y">> -> SubU64(Now, Now % secs_in_day)
          [] ds = <<"y", "e", "s", "t", "e", "r", "d", "a", "y">> ->
                UNION { SubU64(o.secs, Now % secs_in_day) : o \in SubU64(Now, secs_in_day) }
          [] ds = <<"w", "e", "e", "k">> -> SpanBack(7, secs_in_day)
          [] ds = <<"m", "o", "n", "t", "h">> -> SpanBack(30, secs_in_day)
          [] ds = <<"y", "e", "a", "r">> -> SubU64(Now, Now % (365 * secs_in_day))
          [] relative /\ ds[Len(ds)] = "d" -> SpanBack(n, secs_in_day)
          [] relative /\ ds[Len(ds)] = "h" -> SpanBack(n, 3600)
          [] relative /\ ds[Len(ds)] = "m" -> SpanBack(n, 60)
          [] OTHER -> {}

\* filters.date_after for a dm: value whose span does not reach back before
\* the epoch (every dm: value of Tokens); the empty set for None
DateAfter(ds) == { o.secs : o \in { x \in DateOutcomes(ds) : x.kind = "some" } }

extract_date(text, filters) ==
    LET ends == [i \in 1..Len(text) |-> DateEnd(text, i)]
        starts == MatchStarts(ends, 1)
        s == Head(starts)
    IN  [text |-> ReplaceAll(text, ends, 1),
         filters |-> IF starts = << >> THEN filters
                     ELSE [filters EXCEPT !.date_after =
                               DateAfter(to_lowercase(SubSeq(text, s + 3, ends[s])))]]

extract_path(text, filters) ==
    LET quoted == [i \in 1..Len(text) |-> QuotedPathEnd(text, i)]
        plain == [i \in 1..Len(text) |-> PathEnd(text, i)]
        qs == MatchStarts(quoted, 1)
        ps == MatchStarts(plain, 1)
    IN  IF qs # << >>
        THEN [text |-> ReplaceAll(text, quoted, 1),
              filters |-> [filters EXCEPT !.path =
                               SubSeq(text, Head(qs) + 6, quoted[Head(qs)] - 1)]]
        ELSE [text |-> ReplaceAll(text, plain, 1),
              filters |-> IF ps = << >> THEN filters
                          ELSE [filters EXCEPT !.path =
                                    SubSeq(text, Head(ps) + 5, plain[Head(ps)])]]

extract_name(text, filters) ==
    LET ends == [i \in 1..Len(text) |-> NameEnd(text, i)]
        starts == MatchStarts(ends, 1)
    IN  [text |-> ReplaceAll(text, ends, 1),
         filters |-> IF starts = << >> THEN filters
                     ELSE [filters EXCEPT !.name_pattern =
                               SubSeq(text, Head(starts) + 5, ends[Head(starts)])]]

\* SearchSyntaxParser::parse: the five extractions one after the other, each
\* on the text and the filters the one before it left
parse(query) ==
    CHOOSE parsed \in
        { [pure_keyword |-> CollapseSpaces(n.text), filters |-> n.filters] :
            n \in { extract_name(p.text, p.filters) :
            p \in { extract_path(d.text, d.filters) :
            d \in { extract_date(s.text, s.filters) :
            s \in { extract_size(e.text, e.filters) :
            e \in { extract_ext(query, DefaultFilters) } } } } } } : TRUE

----------------------------------------------------------------------------
(* The search task of one volume: search_contains, then apply_filters      *)

MaxRuns == 2
MaxTokens == 3

\* the limits search_files passes to search_contains
WILDCARD_LIMIT == 50000
KEYWORD_LIMIT == 10000

\* count consecutive items of the item vector that are equal but for their
\* file reference
ItemRun(item, count) == [item |-> item, count |-> count]

\* Iterator::take over runs
RECURSIVE TakeRuns(_, _)
TakeRuns(runs, n) ==
    IF runs = << >> \/ n = 0 THEN << >>
    ELSE IF Head(runs).count >= n THEN <<ItemRun(Head(runs).item, n)>>
    ELSE <<Head(runs)>> \o TakeRuns(Tail(runs), n - Head(runs).count)

\* SearchIndex::search_contains over runs
search_contains_runs(runs, pattern, max_results) ==
    TakeRuns(SelectSeq(runs, LAMBDA r : ContainsFilter(r.item, to_lowercase(pattern))),
             max_results)

\* struct SearchResult, as the task fills it from an item
SearchResult(item) ==
    [filename |-> item.name, fullpath |-> item.path, size |-> item.size,
     mtime |-> item.mtime, is_dir |-> item.is_dir]

\* Path::new(filename).extension().and_then(|e| e.to_str()).unwrap_or(""):
\* nothing for a name without '.', for ".." and for a name whose only '.'
\* is its first character
PathExtension(filename) ==
    LET pos == rfind(filename, ".")
    IN  IF pos <= 1 \/ filename = <<".", ".">> THEN EmptyString
        ELSE SubSeq(filename, pos + 1, Len(filename))

InSeq(x, q) == \E i \in 1..Len(q) : q[i] = x

match_item(item, filters) ==
    /\ filters.ext # << >> => InSeq(to_lowercase(PathExtension(item.filename)), filters.ext)
    /\ ~(filters.size_min > 0 /\ item.size < filters.size_min)
    /\ ~(filters.size_max > 0 /\ item.size > filters.size_max)
    /\ \A date_after \in filters.date_after : ~(item.mtime < date_after)
    /\ filters.path # EmptyString =>
           contains(to_lowercase(item.fullpath), to_lowercase(filters.path))
    /\ filters.name_pattern # EmptyString =>
           contains(to_lowercase(item.filename), to_lowercase(filters.name_pattern))

\* SearchSyntaxParser::apply_filters over runs
apply_filters(results, filters) ==
    SelectSeq(results, LAMBDA r : match_item(r.item, filters))

\* the search task of search_files for one volume, up to the rows it sends
TaskResults(runs, parsed) ==
    LET keyword == to_lowercase(parsed.pure_keyword)
        found == IF keyword = EmptyString
                 THEN search_contains_runs(runs, EmptyString, WILDCARD_LIMIT)
                 ELSE search_contains_runs(runs, keyword, KEYWORD_LIMIT)
        drive_results == [i \in 1..Len(found) |->
                              ItemRun(SearchResult(found[i].item), found[i].count)]
    IN  apply_filters(drive_results, parsed.filters)

\* an item of a built index at the root of the volume
VolumeItem(name, size) ==
    IndexedItem(name, to_lowercase(name), VolumeRoot \o name, 1, RootRef, size, FALSE, 1)

\* the runs a volume is made of: one file around each size bound of the
\* queries, names with and without an extension, a name that ends in a dot,
\* a name that starts with its only dot, a removed item, and two runs as
\* long as the wildcard limit
RunKinds ==
    { ItemRun(VolumeItem(<<"a", ".", "b">>, s), 1) :
        s \in {0, 1023, 1024, 1025, 1073741824, 1073741825} }
    \cup { ItemRun(VolumeItem(n, 1), 1) : n \in {<<"A", ".", "B">>, <<"c">>, <<".", "b">>, <<"a", ".">>, <<"x", ".", "c">>} }
    \cup { ItemRun(Tombstoned(VolumeItem(<<"a", ".", "b">>, 1)), 1) }
    \cup { ItemRun(VolumeItem(n, 1), WILDCARD_LIMIT) : n \in {<<"a", ".", "b">>, <<"x", ".", "c">>} }

RECURSIVE RunSeqs(_)
RunSeqs(n) ==
    IF n = 0 THEN { << >> }
    ELSE RunSeqs(n - 1) \cup { Append(q, r) : q \in RunSeqs(n - 1), r \in RunKinds }

QueryVolumes == RunSeqs(MaxRuns)

\* queries made of one filter
FilterQueries ==
    { <<"e", "x", "t", ":", "b">>, <<"e", "x", "t", ":", "c">>, <<"s", "i", "z", "e", ":", ">", "1", "k", "b">>, <<"s", "i", "z", "e", ":", "<", "1", "k", "b">>, <<"s", "i", "z", "e", ":", ">", "1", "g", "b">>, <<"s", "i", "z", "e", ":", ">", "0", "k", "b">>, <<"e", "x", "t", ":", "B", ",", "c">> }

\* pieces of query text: filters, and pieces that become a filter when the
\* text between them is taken out
Tokens ==
    { <<"e", "x", "t">>, <<"e", "x", "t", ":", "a">>, <<":", "b">>, <<" ">>, <<"x">>, <<"s", "i", "z", "e", ":", ">", "1", "k", "b">>, <<"p", "a", "t", "h", ":", "\"", "p", "\"">>, <<"n", "a", "m", "e", ":", "n">>, <<"d", "m", ":", "1", "d">>, <<"s", "i", "z", "e", ":", "<", "1", ".", "5", "M", "B">> }

RECURSIVE TokenQueries(_)
TokenQueries(n) ==
    IF n = 0 THEN { << >> }
    ELSE TokenQueries(n - 1) \cup { q \o w : q \in TokenQueries(n - 1), w \in Tokens }

QueryIdle ==
    /\ query_text = EmptyString
    /\ volume_items = << >>
    /\ parse_result = [pure_keyword |-> EmptyString, filters |-> DefaultFilters]
    /\ task_results = << >>
    /\ query_pc = "idle"

\* a query of one filter against any volume, or any query against no volume
QueryInit ==
    /\ \/ query_text \in FilterQueries /\ volume_items \in QueryVolumes
       \/ query_text \in TokenQueries(MaxTokens) /\ volume_items = << >>
    /\ parse_result = [pure_keyword |-> EmptyString, filters |-> DefaultFilters]
    /\ task_results = << >>
    /\ query_pc = "typed"

\* search_files: SearchSyntaxParser::parse(&query)
parse_query ==
    /\ query_pc = "typed"
    /\ parse_result' = parse(query_text)
    /\ query_pc' = "parsed"
    /\ UNCHANGED <<query_text, volume_items, task_results>>
    /\ UNCHANGED outside_query

\* the search task of the volume
search_volume ==
    /\ query_pc = "parsed"
    /\ task_results' = TaskResults(volume_items, parse_result)
    /\ query_pc' = "searched"
    /\ UNCHANGED <<query_text, volume_items, parse_result>>
    /\ UNCHANGED outside_query

----------------------------------------------------------------------------
(* The files of the tracked volume that the change tracker follows         *)

MaxFsRecords == 4

\* file 1 lies in the root; file 2 lies in a directory that was made after
\* the directory cache was built, so its reference 7 is not in the cache
FsRefs == {1, 2}
FsParent(ref) == IF ref = 1 THEN RootRef ELSE 7
FsDir(ref) == IF ref = 1 THEN VolumeRoot ELSE VolumeRoot \o <<"d", "\\">>
FsNames == { <<"a">>, <<"b">>, <<"c">> }

\* the file reference as the set of its bits
RefBits(ref) == IF ref = 1 THEN {0} ELSE {1}

\* the paths that exist: what Path::new(&path).exists() answers
OnDisk == { FsDir(ref) \o disk[ref] : ref \in { r \in FsRefs : disk[r] # EmptyString } }

FsIdle ==
    /\ disk = [ref \in FsRefs |-> EmptyString]
    /\ batch_start = 0

----------------------------------------------------------------------------
(* scan_usn_journal_all call by call: CreateFileW, FSCTL_QUERY_USN_JOURNAL  *)
(* and the loop of FSCTL_ENUM_USN_DATA calls, and what                      *)
(* init_search_index_internal makes of its result                           *)

MaxCursor == 2
MaxScanRecords == 2

\* values of the first 8 bytes of the output buffer
Cursors == 0..MaxCursor

\* the entries one output buffer may hold: a directory of the root, a file
\* in it, and a metafile that the name filter drops
BufferEntries ==
    { << >>,
      <<MftRecord(<<"a">>, 1, RootRef, TRUE)>>,
      <<MftRecord(<<"b">>, 2, 1, FALSE)>>,
      <<MftRecord(<<"$", "x">>, 3, RootRef, FALSE)>> }

\* what a DeviceIoControl(FSCTL_ENUM_USN_DATA) call may answer: whether it
\* succeeded, the bytes returned (the 8 bytes of the cursor alone, or more),
\* the cursor and the entries in the buffer
EnumResponses ==
    [ok : BOOLEAN, br : {8, 72}, next : Cursors, entries : BufferEntries]

NoCall == [cursor |-> 0, ok |-> FALSE, br |-> 0, next |-> 0]

\* variant in which a failed FSCTL_ENUM_USN_DATA call is an error of the scan
AfterEnumFailure_Error == "err"

\* the break of the loop on a failed call falls through to Ok(records)
AfterEnumFailure == "ok"

ScanIdle ==
    /\ scan_pc = "idle"
    /\ med = 0
    /\ scan_records = << >>
    /\ last_call = NoCall
    /\ scan_failed = "none"
    /\ init_returned = {}

\* init_search_index_internal has found the drive unregistered and no index
\* file to load, and calls scan_usn_journal_all
ScanInit ==
    /\ scan_pc = "open"
    /\ med = 0
    /\ scan_records = << >>
    /\ last_call = NoCall
    /\ scan_failed = "none"
    /\ init_returned = {}

\* CreateFileW on the volume: INVALID_HANDLE_VALUE returns Err
scan_open ==
    /\ scan_pc = "open"
    /\ \E open_ok \in BOOLEAN :
        /\ scan_pc' = IF open_ok THEN "query" ELSE "err"
        /\ scan_failed' = IF open_ok THEN scan_failed ELSE "open"
    /\ UNCHANGED <<med, scan_records, last_call, init_returned>>
    /\ UNCHANGED outside_scan

\* DeviceIoControl(FSCTL_QUERY_USN_JOURNAL): 0 closes the handle and returns
\* Err
scan_query ==
    /\ scan_pc = "query"
    /\ \E query_ok \in BOOLEAN :
        /\ scan_pc' = IF query_ok THEN "enum" ELSE "err"
        /\ scan_failed' = IF query_ok THEN scan_failed ELSE "query"
    /\ UNCHANGED <<med, scan_records, last_call, init_returned>>
    /\ UNCHANGED outside_scan

\* one turn of the loop: the call with the cursor med; the loop is left when
\* the call fails or br <= 8, otherwise the cursor is taken from the buffer
\* and the entries that pass the name filter are pushed
scan_enum(resp) ==
    /\ scan_pc = "enum"
    /\ Len(scan_records) + Len(scan_usn_journal_all(resp.entries)) <= MaxScanRecords
    /\ last_call' = [cursor |-> med, ok |-> resp.ok, br |-> resp.br, next |-> resp.next]
    /\ IF ~resp.ok
       THEN /\ scan_pc' = AfterEnumFailure
            /\ scan_failed' = "enum"
            /\ UNCHANGED <<med, scan_records>>
       ELSE IF resp.br <= 8
       THEN /\ scan_pc' = "ok"
            /\ UNCHANGED <<med, scan_records, scan_failed>>
       ELSE /\ med' = resp.next
            /\ scan_records' = scan_records \o scan_usn_journal_all(resp.entries)
            /\ UNCHANGED <<scan_pc, scan_failed>>
    /\ UNCHANGED init_returned
    /\ UNCHANGED outside_scan

\* the index init_search_index_internal registers for the records
RegisteredFor(records) ==
    [item_count |-> Len(IndexedItems(records)), from_file |-> FALSE, old_for |-> {},
     mutated |-> FALSE]

\* init_search_index_internal after the scan: Err returns false; Ok goes on
\* to the path map, the items, build and the insert into SEARCH_INDICES
init_after_scan ==
    /\ scan_pc \in {"ok", "err"}
    /\ init_returned = {}
    /\ IF scan_pc = "err"
       THEN /\ init_returned' = {FALSE}
            /\ UNCHANGED <<index_vars, registry_vars, enum_vars>>
       ELSE /\ init_returned' = {TRUE}
            /\ LET new_items == IndexedItems(scan_records)
                   st == BuildIndex(new_items)
               IN  /\ indexed_items' = new_items
                   /\ items' = st.items
                   /\ name_trie' = st.name_trie
                   /\ ext_index' = st.ext_index
                   /\ file_ref_map' = st.file_ref_map
            /\ dirty' = TRUE
            /\ SEARCH_INDICES' = MapPut(SEARCH_INDICES, TrackedDrive,
                                        RegisteredFor(scan_records))
            /\ UNCHANGED <<blob, add_file_blocked, pending_dirty>>
            /\ UNCHANGED <<index_file, file_count, reg_call>>
            /\ UNCHANGED <<mft_records, enum_done>>
    /\ UNCHANGED <<scan_pc, med, scan_records, last_call, scan_failed>>
    /\ UNCHANGED outside_scan_build

----------------------------------------------------------------------------
(* The breadth-first pass over records that need not form a forest          *)

MaxWalkRecords == 2
MaxVisits == 2

\* file references of the records: two directories and the reference of
\* the root
WalkRefs == {1, 2, RootRef}

\* directory records with any of the references as their own and as their
\* parent's, under a plain name or a name of SKIP_DIRS
WalkRecordKinds ==
    { MftRecord(name, file_ref, parent_ref, TRUE) :
        name \in { <<"a">>, <<"T", "e", "m", "p">> },
        file_ref \in WalkRefs, parent_ref \in WalkRefs }

WalkIdle ==
    /\ walk_records = << >>
    /\ walk = [paths |-> EmptyMap, skip |-> {}, queue |-> << >>]
    /\ visits = [r \in WalkRefs |-> 0]

WalkInit ==
    /\ walk_records \in SeqsUpTo(WalkRecordKinds, MaxWalkRecords)
    /\ walk = WalkStart
    /\ visits = [r \in WalkRefs |-> 0]

\* one turn of the loop
walk_step ==
    /\ walk.queue # << >>
    /\ visits[Head(walk.queue)] < MaxVisits
    /\ walk' = WalkStep(walk, walk_records)
    /\ visits' = [visits EXCEPT ![Head(walk.queue)] = @ + 1]
    /\ UNCHANGED walk_records
    /\ UNCHANGED outside_walk

----------------------------------------------------------------------------
(* start_file_monitoring: every call spawns one polling task per drive of   *)
(* its argument; a task runs until its stop flag is set, which no code does *)

MaxPollers == 2

\* the drives argument of a call
DriveLists == { <<"C">>, <<"D">>, <<"C", "D">> }

MonitorIdle ==
    /\ pollers = [d \in Drives |-> << >>]
    /\ applied = [d \in Drives |-> [i \in 1..MaxJournal |-> 0]]

\* the drives of the list, each once (no list names a drive twice)
Spawned(drives) == { drives[i] : i \in DOMAIN drives }

\* start_file_monitoring(window, drives): tokio::spawn for each drive; the
\* task starts with last_usn = get_current_usn(drive)
start_file_monitoring(drives) ==
    /\ \A d \in Spawned(drives) : Len(pollers[d]) < MaxPollers
    /\ pollers' = [d \in Drives |->
                      IF d \in Spawned(drives)
                      THEN Append(pollers[d], NextUsn(d))
                      ELSE pollers[d]]
    /\ UNCHANGED applied
    /\ UNCHANGED outside_monitor

\* one turn of the loop of task k of drive d that finds current_usn >
\* last_usn: the changes since last_usn are applied to the index of the
\* drive, then last_usn = current_usn
monitor_poll(d, k) ==
    /\ k \in DOMAIN pollers[d]
    /\ NextUsn(d) > pollers[d][k]
    /\ applied' = [applied EXCEPT ![d] =
                      [i \in 1..MaxJournal |->
                          IF i \in PositionsSince(d, pollers[d][k]) THEN @[i] + 1 ELSE @[i]]]
    /\ pollers' = [pollers EXCEPT ![d][k] = NextUsn(d)]
    /\ UNCHANGED outside_monitor

----------------------------------------------------------------------------
(* realtime_search: the walk over the search paths, with results counted    *)

MaxPaths == 2

REALTIME_BATCH_SIZE == 50
REALTIME_LIMIT == 10000

SearchPaths == 1..MaxPaths

\* how many entries of a path pass the skip lists, the keyword and the
\* filters
MatchCounts == {0, REALTIME_BATCH_SIZE + 1, REALTIME_LIMIT, REALTIME_LIMIT + 1}

RealtimeIdle ==
    /\ rt_pc = "idle"
    /\ rt_left = [p \in SearchPaths |-> 0]
    /\ rt_path = 1
    /\ rt_results = 0
    /\ rt_batch = 0
    /\ rt_rows = 0
    /\ rt_max_batch = 0
    /\ rt_complete = -1
    /\ rt_returned = -1

\* realtime_search is called; all_results and batch are empty
RealtimeInit ==
    /\ rt_pc = "walk"
    /\ rt_left \in [SearchPaths -> MatchCounts]
    /\ rt_path = 1
    /\ rt_results = 0
    /\ rt_batch = 0
    /\ rt_rows = 0
    /\ rt_max_batch = 0
    /\ rt_complete = -1
    /\ rt_returned = -1

Max(a, b) == IF a >= b THEN a ELSE b

\* window.emit("search-batch", &batch); batch.clear()
EmitBatch(n) ==
    /\ rt_rows' = rt_rows + n
    /\ rt_max_batch' = Max(rt_max_batch, n)
    /\ rt_batch' = 0

\* the remaining batch is sent after the walk of a path, when not empty
EmitRest(n) ==
    IF n > 0 THEN EmitBatch(n) ELSE UNCHANGED <<rt_rows, rt_max_batch, rt_batch>>

\* one matching entry of the walk of the current path: pushed to
\* all_results and batch, the batch sent when it holds BATCH_SIZE rows; at
\* 10000 results the walk of this path is left (break) and what remains of
\* the batch is sent
realtime_entry ==
    /\ rt_pc = "walk"
    /\ rt_path \in SearchPaths
    /\ rt_left[rt_path] > 0
    /\ rt_results' = rt_results + 1
    /\ rt_left' = [rt_left EXCEPT ![rt_path] = @ - 1]
    /\ IF rt_results + 1 >= REALTIME_LIMIT
       THEN /\ IF rt_batch + 1 >= REALTIME_BATCH_SIZE
               THEN EmitBatch(rt_batch + 1)
               ELSE EmitRest(rt_batch + 1)
            /\ rt_path' = rt_path + 1
       ELSE /\ IF rt_batch + 1 >= REALTIME_BATCH_SIZE
               THEN EmitBatch(rt_batch + 1)
               ELSE /\ rt_batch' = rt_batch + 1
                    /\ UNCHANGED <<rt_rows, rt_max_batch>>
            /\ UNCHANGED rt_path
    /\ UNCHANGED <<rt_pc, rt_complete, rt_returned>>
    /\ UNCHANGED outside_realtime

\* the walk of the current path yields no further entry: what remains of
\* the batch is sent and the next path is walked
realtime_path_end ==
    /\ rt_pc = "walk"
    /\ rt_path \in SearchPaths
    /\ rt_left[rt_path] = 0
    /\ EmitRest(rt_batch)
    /\ rt_path' = rt_path + 1
    /\ UNCHANGED <<rt_pc, rt_left, rt_results, rt_complete, rt_returned>>
    /\ UNCHANGED outside_realtime

\* after the last path: search-complete with all_results.len(), Ok(all_results)
realtime_return ==
    /\ rt_pc = "walk"
    /\ rt_path \notin SearchPaths
    /\ rt_pc' = "done"
    /\ rt_complete' = rt_results
    /\ rt_returned' = rt_results
    /\ UNCHANGED <<rt_left, rt_path, rt_results, rt_batch, rt_rows, rt_max_batch>>
    /\ UNCHANGED outside_realtime

----------------------------------------------------------------------------
(* The dm: values of a query                                                *)

MaxSpan == 2

\* the decimal digits of n
RECURSIVE Decimal(_)
Decimal(n) ==
    IF n < 10 THEN <<(<<"0", "1", "2", "3", "4", "5", "6", "7", "8", "9">>)[n + 1]>>
    ELSE Decimal(n \div 10) \o Decimal(n % 10)

\* spans of some ten thousand days, in each unit
LongSpan(unit) ==
    CASE unit = "d" -> 10000
      [] unit = "h" -> 10000 * 24
      [] unit = "m" -> 10000 * 24 * 60

\* NUM of NUMd, NUMh, NUMm: short spans and long ones
SpanNums(unit) ==
    (0..(12 * MaxSpan)) \cup { k * LongSpan(unit) : k \in 1..MaxSpan }

DmValues ==
    { <<"t", "o", "d", "a", "y">>, <<"y", "e", "s", "t", "e", "r", "d", "a", "y">>,
      <<"w", "e", "e", "k">>, <<"m", "o", "n", "t", "h">>, <<"y", "e", "a", "r">> }
    \cup UNION { { Decimal(n) \o <<unit>> : n \in SpanNums(unit) } : unit \in {"d", "h", "m"} }

NoOutcome == [kind |-> "none", secs |-> 0, below |-> 0]

DateIdle ==
    /\ dm_value = EmptyString
    /\ dm_outcome = NoOutcome

\* a query with a dm: value is about to be parsed
DateInit ==
    /\ dm_value \in DmValues
    /\ dm_outcome = NoOutcome

\* extract_date on the dm: value of the query
extract_dm ==
    /\ dm_value # EmptyString
    /\ dm_outcome = NoOutcome
    /\ dm_outcome' \in DateOutcomes(dm_value)
    /\ UNCHANGED dm_value
    /\ UNCHANGED outside_date

----------------------------------------------------------------------------
(* Initial state: SearchIndex::new(), no blob on disk                      *)

IndexInit ==
    /\ items = << >>
    /\ name_trie = EmptyMap
    /\ ext_index = EmptyMap
    /\ file_ref_map = EmptyMap
    /\ dirty = FALSE
    /\ blob = NoBlob
    /\ add_file_blocked = FALSE
    /\ pending_dirty = 0

\* the parts of the model that only the specifications further down set going
RestIdle == ScanIdle /\ WalkIdle /\ MonitorIdle /\ RealtimeIdle /\ DateIdle

Init ==
    /\ IndexInit
    /\ LockInit
    /\ TrackerInit
    /\ DirFileInit
    /\ RegistryInit
    /\ SearchInit
    /\ BuildInit
    /\ EnumIdle
    /\ QueryIdle
    /\ FsIdle
    /\ RestIdle

----------------------------------------------------------------------------
(* Operations                                                              *)

\* a fresh SearchIndex object replaces the registered one: calls in flight
\* on the old object no longer touch the registered index
FreshObject ==
    /\ add_file_blocked' = FALSE
    /\ pending_dirty' = 0

\* the index built from each enumeration
BuiltIndexes == [new_items \in BuildInputs |-> BuildIndex(new_items)]

\* init_search_index_internal: SearchIndex::new() followed by build(new_items)
build(new_items) ==
    LET st == BuiltIndexes[new_items]
    IN  /\ items' = st.items
        /\ name_trie' = st.name_trie
        /\ ext_index' = st.ext_index
        /\ file_ref_map' = st.file_ref_map
        /\ dirty' = TRUE
        /\ FreshObject
        /\ UNCHANGED blob
        /\ UNCHANGED outside_index

\* SearchIndex::add_file.  The guard returned by the first name_trie.write()
\* lives until the end of the statement, so the second name_trie.write() in
\* the unwrap_or_else closure, taken when the key is absent, waits for a lock
\* its own thread holds: the call never returns and keeps items.write().
AddFile(raw) ==
    /\ ~add_file_blocked
    /\ Len(items) < MaxItems
    /\ LET idx == Len(items)
           item == WithNameLower(raw)
       IN  IF item.name_lower \in DOMAIN name_trie
           THEN /\ name_trie' = [name_trie EXCEPT ![item.name_lower] = Append(@, idx)]
                /\ ext_index' = IndexExtension(ext_index, item.name, idx)
                /\ file_ref_map' = MapPut(file_ref_map, item.file_ref, idx)
                /\ items' = Append(items, item)
                /\ dirty' = TRUE
                /\ UNCHANGED <<blob, add_file_blocked, pending_dirty>>
           ELSE /\ add_file_blocked' = TRUE
                /\ UNCHANGED <<items, name_trie, ext_index, file_ref_map, dirty,
                               blob, pending_dirty>>

\* add_file called on the registered index by itself
add_file(raw) ==
    /\ AddFile(raw)
    /\ UNCHANGED outside_index

\* a removal that takes the slot out of the vector, as Vec::remove would
ClearSlot_Remove(its, idx) ==
    IF HasSlot(its, idx)
    THEN SubSeq(its, 1, idx) \o SubSeq(its, idx + 2, Len(its))
    ELSE its

\* items[idx] after the tombstone is written, when idx < items.len()
ClearSlot(its, idx) ==
    IF HasSlot(its, idx)
    THEN [its EXCEPT ![idx + 1] = Tombstoned(@)]
    ELSE its

\* SearchIndex::remove_file, up to the release of the items lock, for a
\* file_ref the map holds (otherwise the call returns false and changes
\* nothing).  With add_file blocked the call stops at items.write(), after
\* the map entry is gone.
remove_file(file_ref) ==
    /\ file_ref \in DOMAIN file_ref_map
    /\ file_ref_map' = MapRemove(file_ref_map, file_ref)
    /\ IF add_file_blocked
       THEN UNCHANGED <<items, pending_dirty>>
       ELSE /\ pending_dirty < MaxPending
            /\ items' = ClearSlot(items, file_ref_map[file_ref])
            /\ pending_dirty' = pending_dirty + 1
    /\ UNCHANGED <<name_trie, ext_index, dirty, blob, add_file_blocked>>
    /\ UNCHANGED outside_index

\* slots whose lowercased path equals the normalised argument
PathMatches(its, path) ==
    LET path_normalized == to_lowercase(replace_slash(path))
    IN  {idx \in 0..(Len(its) - 1) : to_lowercase(At(its, idx).path) = path_normalized}

\* the first match of the scan of remove_file_by_path
FirstMatch(its, path) ==
    CHOOSE idx \in PathMatches(its, path) : \A o \in PathMatches(its, path) : idx <= o

\* SearchIndex::remove_file_by_path, up to the release of the locks, when
\* the scan finds the path (otherwise the call returns false and changes
\* nothing)
RemoveFileByPath(path) ==
    /\ ~add_file_blocked
    /\ pending_dirty < MaxPending
    /\ PathMatches(items, path) # {}
    /\ LET idx == FirstMatch(items, path)
       IN  /\ file_ref_map' = MapRemove(file_ref_map, At(items, idx).file_ref)
           /\ items' = ClearSlot(items, idx)
    /\ pending_dirty' = pending_dirty + 1
    /\ UNCHANGED <<name_trie, ext_index, dirty, blob, add_file_blocked>>

\* remove_file_by_path called on the registered index by itself
remove_file_by_path(path) ==
    /\ RemoveFileByPath(path)
    /\ UNCHANGED outside_index

\* the tail of remove_file and remove_file_by_path: *self.dirty.write() = true,
\* written after the items lock is released
remove_mark_dirty ==
    /\ pending_dirty > 0
    /\ pending_dirty' = pending_dirty - 1
    /\ dirty' = TRUE
    /\ UNCHANGED <<items, name_trie, ext_index, file_ref_map, blob,
                   add_file_blocked>>
    /\ UNCHANGED outside_index

\* SearchIndex::save_to_file, successful: the flag is cleared while the
\* items read lock is still held
save_to_file ==
    /\ ~add_file_blocked
    /\ blob' = {Serialize(items)}
    /\ dirty' = FALSE
    /\ UNCHANGED <<items, name_trie, ext_index, file_ref_map,
                   add_file_blocked, pending_dirty>>
    /\ UNCHANGED outside_index

\* load_search_index / init_search_index_internal: SearchIndex::new()
\* followed by load_from_file of the blob
load_from_file ==
    /\ blob # NoBlob
    /\ \E bytes \in blob :
        LET st == BuildIndex(Deserialize(bytes))
        IN  /\ items' = st.items
            /\ name_trie' = st.name_trie
            /\ ext_index' = st.ext_index
            /\ file_ref_map' = st.file_ref_map
    /\ dirty' = FALSE
    /\ FreshObject
    /\ UNCHANGED blob
    /\ UNCHANGED outside_index

\* the command delete_file, up to the removal of the file itself: when
\* remove_file_by_path finds the path, the dirty flag is set and then
\* cleared by the save_to_file that follows; otherwise the index is left
\* alone
delete_file(path) ==
    /\ ~add_file_blocked
    /\ IF PathMatches(items, path) # {}
       THEN LET idx == FirstMatch(items, path)
            IN  /\ file_ref_map' = MapRemove(file_ref_map, At(items, idx).file_ref)
                /\ items' = ClearSlot(items, idx)
                /\ blob' = {Serialize(ClearSlot(items, idx))}
                /\ dirty' = FALSE
       ELSE UNCHANGED <<file_ref_map, items, blob, dirty>>
    /\ UNCHANGED <<name_trie, ext_index, add_file_blocked, pending_dirty>>
    /\ UNCHANGED outside_index

\* one iteration of the change loop of start_file_monitoring
apply_change(change) ==
    IF change.action = 0 \/ change.action = 4
    THEN remove_file_by_path(change.path)
    ELSE /\ change.action \in {1, 2, 3}
         /\ \E size \in FsSizes, mtime \in FsMtimes :
                add_file(TrackerItem(change.path, size, mtime))

\* the calls on the registered index, with the data they read and write;
\* the lock-by-lock view of the same methods is LockNext
Next ==
    \/ \E new_items \in BuildInputs : build(new_items)
    \/ \E raw \in FfiAddInputs : add_file(raw)
    \/ \E file_ref \in RemoveRefs : remove_file(file_ref)
    \/ \E path \in DeletePaths : remove_file_by_path(path)
    \/ \E change \in Changes : apply_change(change)
    \/ \E path \in DeletePaths : delete_file(path)
    \/ remove_mark_dirty
    \/ save_to_file
    \/ load_from_file

Spec == Init /\ [][Next]_vars

----------------------------------------------------------------------------
(* Threads calling the methods of one SearchIndex concurrently             *)

LockNext ==
    \/ \E t \in Threads, c \in Calls : call(t, c)
    \/ \E t \in Threads : acquire(t)
    \/ \E t \in Threads : release(t)

LockSpec == Init /\ [][LockNext]_vars

----------------------------------------------------------------------------
(* One get_usn_changes call over a journal that holds a batch of records   *)

BatchInit ==
    /\ IndexInit
    /\ LockInit
    /\ \E batch \in BatchJournals :
           journal = [d \in Drives |-> IF d = TrackedDrive THEN batch ELSE << >>]
    /\ journal_id = [d \in Drives |-> 1]
    /\ DIR_CACHE = EmptyMap
    /\ last_usn = 0
    /\ current_usn = NextUsn(TrackedDrive)
    /\ poll_pc = IF current_usn > last_usn THEN "read" ELSE "sleep"
    /\ changes = << >>
    /\ read_count = [i \in 1..Len(journal[TrackedDrive]) |-> 0]
    /\ DirFileInit
    /\ RegistryInit
    /\ SearchInit
    /\ BuildInit
    /\ EnumIdle
    /\ QueryIdle
    /\ FsIdle
    /\ RestIdle

BatchNext == poll_read

BatchSpec == BatchInit /\ [][BatchNext]_vars

----------------------------------------------------------------------------
(* The poller of one volume, next to the file system that writes the       *)
(* journal                                                                 *)

PollNext ==
    \/ \E rec \in PollRecords : journal_append(TrackedDrive, rec)
    \/ journal_recreate(TrackedDrive)
    \/ poll_query
    \/ poll_read

PollSpec == Init /\ [][PollNext]_vars

----------------------------------------------------------------------------
(* The directory cache of the volumes and the file it is saved to          *)

DirCacheNext ==
    \/ \E persisted \in ForeignCacheFiles : dir_cache_file_replaced(persisted)
    \/ \E d \in Drives : clear_dir_cache(d)
    \/ \E d \in Drives : warmup_dir_cache(d)
    \/ \E d \in Drives : save_dir_cache(d)
    \/ \E d \in Drives : load_dir_cache(d)
    \/ \E d \in Drives : journal_recreate(d)

DirCacheSpec == Init /\ [][DirCacheNext]_vars

----------------------------------------------------------------------------
(* The registry of indices, used by several threads, over volumes whose    *)
(* files and journals change                                               *)

RegistryNext ==
    \/ \E t \in Threads, op \in {"init", "force"} : reg_call_start(t, op, TrackedDrive)
    \/ \E t \in Threads : force_delete(t)
    \/ \E t \in Threads : force_unregister(t)
    \/ \E t \in Threads : init_check(t)
    \/ \E t \in Threads : init_load(t)
    \/ \E t \in Threads : init_scan(t)
    \/ \E t \in Threads : init_insert(t)
    \/ volume_change(TrackedDrive)
    \/ journal_recreate(TrackedDrive)
    \/ restart

RegistrySpec == Init /\ [][RegistryNext]_vars

----------------------------------------------------------------------------
(* One search_files call, next to the change tracker that applies changes  *)
(* to the registered index of its volume                                   *)

\* the steps of the orchestrator and of the search tasks
SearchSteps ==
    \/ orch_spawn_tasks
    \/ \E d \in Drives : task_search(d)
    \/ \E d \in Drives : task_send(d)
    \/ \E d \in Drives : task_finish(d)
    \/ orch_recv
    \/ orch_recv_closed
    \/ orch_complete

\* the poller of the tracked volume applies a change to the registered
\* index
poll_apply(change) ==
    /\ TrackedDrive \in DOMAIN SEARCH_INDICES
    /\ apply_change(change)

SearchNext ==
    \/ \E drives \in (SUBSET Drives) \ {{}} : search_files(drives)
    \/ search_return
    \/ SearchSteps
    \/ \E change \in Changes : poll_apply(change)

SearchSpec == Init /\ [][SearchNext]_vars

----------------------------------------------------------------------------
(* One search_files call whose window may be closed while the search runs  *)

CancelNext ==
    \/ \E drives \in (SUBSET Drives) \ {{}} : search_files(drives)
    \/ search_return
    \/ SearchSteps
    \/ sink_drop

CancelSpec == Init /\ [][CancelNext]_vars

----------------------------------------------------------------------------
(* One build_index call, next to the change tracker that applies changes   *)
(* to the registered index of its volume                                   *)

\* the steps of the builder thread
BuildSteps ==
    \/ build_begin_drive
    \/ force_delete(BuilderThread)
    \/ force_unregister(BuilderThread)
    \/ init_check(BuilderThread)
    \/ init_load(BuilderThread)
    \/ init_scan(BuilderThread)
    \/ init_insert(BuilderThread)
    \/ build_end_drive
    \/ build_finish

BuildNext ==
    \/ \E drives \in BuildScopes : build_index(drives)
    \/ BuildSteps
    \/ \E change \in Changes : poll_apply(change)

BuildSpec == Init /\ [][BuildNext]_vars

----------------------------------------------------------------------------
(* One enumeration of a volume, from any set of MFT entries                *)

EnumNext == scan_and_build

EnumSpecInit ==
    /\ IndexInit /\ LockInit /\ TrackerInit /\ DirFileInit /\ RegistryInit
    /\ SearchInit /\ BuildInit /\ EnumInit /\ QueryIdle /\ FsIdle
    /\ RestIdle

EnumSpec == EnumSpecInit /\ [][EnumNext]_vars

----------------------------------------------------------------------------
(* One query: parsed, then run against the items of one volume             *)

QueryNext ==
    \/ parse_query
    \/ search_volume

QuerySpecInit ==
    /\ IndexInit /\ LockInit /\ TrackerInit /\ DirFileInit /\ RegistryInit
    /\ SearchInit /\ BuildInit /\ EnumIdle /\ QueryInit /\ FsIdle
    /\ RestIdle

QuerySpec == QuerySpecInit /\ [][QueryNext]_vars

----------------------------------------------------------------------------
(* The change tracker of one volume from the file system to the index      *)

\* the file system writes records to the journal of the tracked volume
FsAppend(recs) ==
    /\ Len(journal[TrackedDrive]) + Len(recs) <= MaxFsRecords
    /\ journal' = [journal EXCEPT ![TrackedDrive] = @ \o recs]
    /\ read_count' = read_count \o [i \in 1..Len(recs) |-> 0]
    /\ UNCHANGED <<journal_id, DIR_CACHE, last_usn, current_usn, poll_pc, changes>>
    /\ UNCHANGED batch_start
    /\ UNCHANGED outside_fs_journal

FsRecord(reason, ref, name) ==
    UsnRecord(reason, RefBits(ref), FsParent(ref), name, FALSE)

\* a file is created and closed
fs_create(ref, name) ==
    /\ disk[ref] = EmptyString
    /\ disk' = [disk EXCEPT ![ref] = name]
    /\ FsAppend(<<FsRecord({"FILE_CREATE", "CLOSE"}, ref, name)>>)

\* a file is renamed: a record under the old name, then one under the new
fs_rename(ref, name) ==
    /\ disk[ref] \notin {EmptyString, name}
    /\ disk' = [disk EXCEPT ![ref] = name]
    /\ FsAppend(<<FsRecord({"RENAME_OLD_NAME"}, ref, disk[ref]),
                  FsRecord({"RENAME_NEW_NAME", "CLOSE"}, ref, name)>>)

\* a file is written to and closed
fs_write(ref) ==
    /\ disk[ref] # EmptyString
    /\ UNCHANGED disk
    /\ FsAppend(<<FsRecord({"DATA_EXTEND", "CLOSE"}, ref, disk[ref])>>)

\* a file is deleted
fs_delete(ref) ==
    /\ disk[ref] # EmptyString
    /\ disk' = [disk EXCEPT ![ref] = EmptyString]
    /\ FsAppend(<<FsRecord({"FILE_DELETE", "CLOSE"}, ref, disk[ref])>>)

\* the poller wakes up once the changes of its last batch are applied
track_query ==
    /\ changes = << >>
    /\ ~add_file_blocked
    /\ batch_start' = last_usn
    /\ poll_query
    /\ UNCHANGED disk

\* one iteration of the change loop of start_file_monitoring, on the next
\* change of the batch: remove_file_by_path for action 0 or 4; for action 1,
\* 2 or 3 add_file when the path exists.  An add_file that blocks never
\* returns, so the loop stops there.
track_apply ==
    /\ poll_pc = "sleep"
    /\ changes # << >>
    /\ LET change == Head(changes)
       IN  IF change.action = 0 \/ change.action = 4
           THEN IF PathMatches(items, change.path) # {}
                THEN RemoveFileByPath(change.path)
                ELSE ~add_file_blocked /\ UNCHANGED index_vars
           ELSE IF change.path \in OnDisk
                THEN \E size \in FsSizes, mtime \in FsMtimes :
                         AddFile(TrackerItem(change.path, size, mtime))
                ELSE UNCHANGED index_vars
    /\ changes' = IF add_file_blocked' THEN changes ELSE Tail(changes)
    /\ UNCHANGED <<journal, journal_id, DIR_CACHE, last_usn, current_usn, poll_pc,
                   read_count>>
    /\ UNCHANGED outside_track

\* the index of the volume was built when file 1 was named a, and both files
\* exist
TrackInit ==
    /\ LET st == BuildIndex(<<IndexedItem(<<"a">>, EmptyString, VolumeRoot \o <<"a">>,
                                            1, RootRef, 1, FALSE, 1)>>)
       IN  /\ items = st.items
           /\ name_trie = st.name_trie
           /\ ext_index = st.ext_index
           /\ file_ref_map = st.file_ref_map
    /\ dirty = FALSE
    /\ blob = NoBlob
    /\ add_file_blocked = FALSE
    /\ pending_dirty = 0
    /\ disk = [ref \in FsRefs |-> <<"a">>]
    /\ batch_start = 0

TrackNext ==
    \/ \E ref \in FsRefs, name \in FsNames : fs_create(ref, name)
    \/ \E name \in FsNames : fs_rename(1, name)
    \/ \E ref \in FsRefs : fs_write(ref)
    \/ \E ref \in FsRefs : fs_delete(ref)
    \/ track_query
    \/ poll_read
    \/ track_apply
    \/ remove_mark_dirty

TrackSpecInit ==
    /\ TrackInit /\ LockInit /\ TrackerInit /\ DirFileInit /\ RegistryInit
    /\ SearchInit /\ BuildInit /\ EnumIdle /\ QueryIdle
    /\ RestIdle

TrackSpec == TrackSpecInit /\ [][TrackNext]_vars

----------------------------------------------------------------------------
(* One enumeration of a volume whose calls may fail or repeat themselves    *)

ScanNext ==
    \/ scan_open
    \/ scan_query
    \/ \E resp \in EnumResponses : scan_enum(resp)
    \/ init_after_scan

ScanSpecInit ==
    /\ IndexInit /\ LockInit /\ TrackerInit /\ DirFileInit /\ RegistryInit
    /\ SearchInit /\ BuildInit /\ EnumIdle /\ QueryIdle /\ FsIdle
    /\ ScanInit /\ WalkIdle /\ MonitorIdle /\ RealtimeIdle /\ DateIdle

ScanSpec == ScanSpecInit /\ [][ScanNext]_vars

----------------------------------------------------------------------------
(* The breadth-first pass of one enumeration, from any set of directory     *)
(* records                                                                  *)

WalkNext == walk_step

WalkSpecInit ==
    /\ IndexInit /\ LockInit /\ TrackerInit /\ DirFileInit /\ RegistryInit
    /\ SearchInit /\ BuildInit /\ EnumIdle /\ QueryIdle /\ FsIdle
    /\ ScanIdle /\ WalkInit /\ MonitorIdle /\ RealtimeIdle /\ DateIdle

WalkSpec == WalkSpecInit /\ [][WalkNext]_vars

----------------------------------------------------------------------------
(* Several threads that initialise the index of one volume (the preload at  *)
(* startup, search_files, the C ABI), next to the change tracker            *)

RaceNext ==
    \/ \E t \in Threads : reg_call_start(t, "init", TrackedDrive)
    \/ \E t \in Threads : init_check(t)
    \/ \E t \in Threads : init_load(t)
    \/ \E t \in Threads : init_scan(t)
    \/ \E t \in Threads : init_insert(t)
    \/ volume_change(TrackedDrive)
    \/ tracker_mutates(TrackedDrive)

RaceSpec == Init /\ [][RaceNext]_vars

----------------------------------------------------------------------------
(* Calls of start_file_monitoring, next to the file system that writes the  *)
(* journals                                                                 *)

MonitorNext ==
    \/ \E drives \in DriveLists : start_file_monitoring(drives)
    \/ \E d \in Drives, k \in 1..MaxPollers : monitor_poll(d, k)
    \/ \E d \in Drives, rec \in PollRecords : journal_append(d, rec)

MonitorSpec == Init /\ [][MonitorNext]_vars

----------------------------------------------------------------------------
(* One call of realtime_search                                              *)

RealtimeNext ==
    \/ realtime_entry
    \/ realtime_path_end
    \/ realtime_return

RealtimeSpecInit ==
    /\ LockInit /\ IndexInit /\ TrackerInit /\ DirFileInit /\ RegistryInit
    /\ SearchInit /\ BuildInit /\ EnumIdle /\ QueryIdle /\ FsIdle
    /\ ScanIdle /\ WalkIdle /\ MonitorIdle /\ RealtimeInit /\ DateIdle

RealtimeSpec == RealtimeSpecInit /\ [][RealtimeNext]_vars

----------------------------------------------------------------------------
(* extract_date on one dm: value                                            *)

DateNext == extract_dm

DateSpecInit ==
    /\ LockInit /\ IndexInit /\ TrackerInit /\ DirFileInit /\ RegistryInit
    /\ SearchInit /\ BuildInit /\ EnumIdle /\ QueryIdle /\ FsIdle
    /\ ScanIdle /\ WalkIdle /\ MonitorIdle /\ RealtimeIdle /\ DateInit

DateSpec == DateSpecInit /\ [][DateNext]_vars

----------------------------------------------------------------------------
(* Query arguments used by the properties                                  *)

Patterns == { EmptyString, <<"a">>, <<"A", ".">>, <<".", "B">>, <<"b">>, <<"c">>, <<"b", ".">> }
Extensions == { <<"b">>, <<"B">>, <<"c">> }
Mtimes == 0..2
ResultLimits == 0..(MaxItems + 1)

\* limits that are at least the number of items
AmpleLimits == { m \in ResultLimits : m >= Len(items) }

\* number of positions of the sequence q that hold the value x
Occurrences(q, x) == Cardinality({i \in 1..Len(q) : q[i] = x})

\* the values held by a sequence
Values(q) == {q[i] : i \in 1..Len(q)}

\* a query can return only while no add_file call sits on the items lock
QueriesReturn == ~add_file_blocked

----------------------------------------------------------------------------
(* C1: search_contains(q, max) with max at least the number of items       *)
(* returns exactly the non-tombstoned items whose case-folded name         *)
(* contains the case-folded q: each such slot once, and nothing else.      *)

NameContains(item, q) ==
    ~IsTombstone(item) /\ contains(to_lowercase(item.name), to_lowercase(q))

C1_ContainsExact ==
    QueriesReturn =>
        \A q \in Patterns, max \in AmpleLimits :
            LET res == search_contains(q, max)
            IN  /\ \A x \in Values(res) : x \in Values(items) /\ NameContains(x, q)
                /\ \A x \in Values(items) :
                       NameContains(x, q) => Occurrences(res, x) = Occurrences(items, x)

\* a removed slot whose stored name_lower still contains "a", next to a live
\* item named with a capital that the query "a" finds
C1_Witness ==
    /\ QueriesReturn
    /\ \E i, j \in 1..Len(items) :
        /\ IsTombstone(items[i])
        /\ contains(items[i].name_lower, <<"a">>)
        /\ ~IsTombstone(items[j])
        /\ items[j].name # items[j].name_lower
        /\ search_contains(<<"a">>, MaxItems) = <<items[j]>>

----------------------------------------------------------------------------
(* C2: every add_file call returns, whether or not the case-folded name is *)
(* already indexed, with the item in the last slot and every map updated.  *)
(* Stated on the state: no add_file call is left waiting for a lock.       *)

C2_AddFileReturns == ~add_file_blocked

----------------------------------------------------------------------------
(* C3: once remove_file(r) has tombstoned its slot, no search_contains     *)
(* call returns an item whose file_ref is r: checked on the state that     *)
(* every remove_file(r) step leaves behind.                                *)

C3_RemovedRefNotFound ==
    [][\A r \in RemoveRefs :
           (remove_file(r) /\ ~add_file_blocked) =>
               \A q \in Patterns, max \in ResultLimits :
                   \A x \in Values(search_contains(q, max))' : x.file_ref # r]_vars

----------------------------------------------------------------------------
(* C4: no query (search_prefix, search_contains, search_by_extension,      *)
(* search_by_mtime_range) returns a tombstoned item.                       *)

NoTombstone(res) == \A x \in Values(res) : ~IsTombstone(x)

C4_NoTombstoneReturned ==
    QueriesReturn =>
        \A max \in ResultLimits :
            /\ \A q \in Patterns : NoTombstone(search_prefix(q, max))
            /\ \A q \in Patterns : NoTombstone(search_contains(q, max))
            /\ \A e \in Extensions : NoTombstone(search_by_extension(e, max))
            /\ \A lo \in Mtimes, hi \in Mtimes :
                   NoTombstone(search_by_mtime_range(lo, hi, max))

----------------------------------------------------------------------------
(* C5: whenever no call is stuck inside the index, each non-tombstoned     *)
(* item at slot i satisfies file_ref_map[items[i].file_ref] == i.          *)

C5_FileRefMapPointsAtLiveSlot ==
    ~add_file_blocked =>
        \A idx \in 0..(Len(items) - 1) :
            ~IsTombstone(At(items, idx)) =>
                /\ At(items, idx).file_ref \in DOMAIN file_ref_map
                /\ file_ref_map[At(items, idx).file_ref] = idx

----------------------------------------------------------------------------
(* C6: no two non-tombstoned slots carry the same file_ref.                *)

C6_FileRefUnique ==
    \A i, j \in 1..Len(items) :
        (i # j /\ ~IsTombstone(items[i]) /\ ~IsTombstone(items[j]))
            => items[i].file_ref # items[j].file_ref

----------------------------------------------------------------------------
(* C7: for every max >= 0, each query returns at most max items, and       *)
(* exactly max items when more than max live items match.                  *)

\* the live slots
Live == {i \in 1..Len(items) : ~IsTombstone(items[i])}

Truncated(res, max, matching) ==
    /\ Len(res) <= max
    /\ matching > max => Len(res) = max

C7_TruncatedToMax ==
    QueriesReturn =>
        \A max \in ResultLimits :
            /\ \A q \in Patterns :
                   Truncated(search_prefix(q, max), max,
                       Cardinality({i \in Live :
                           starts_with(to_lowercase(items[i].name), to_lowercase(q))}))
            /\ \A q \in Patterns :
                   Truncated(search_contains(q, max), max,
                       Cardinality({i \in Live :
                           contains(to_lowercase(items[i].name), to_lowercase(q))}))
            /\ \A e \in Extensions :
                   Truncated(search_by_extension(e, max), max,
                       Cardinality({i \in Live :
                           /\ HasExtension(items[i].name)
                           /\ ExtensionOf(items[i].name) = to_lowercase(e)}))
            /\ \A lo \in Mtimes, hi \in Mtimes :
                   Truncated(search_by_mtime_range(lo, hi, max), max,
                       Cardinality({i \in Live :
                           items[i].mtime >= lo /\ items[i].mtime <= hi}))

----------------------------------------------------------------------------
(* C8: search_prefix(p, max) with max at least the number of items returns *)
(* exactly the non-tombstoned items whose case-folded name starts with the *)
(* case-folded p: each such slot once, and nothing else.                   *)

NameStartsWith(item, q) ==
    ~IsTombstone(item) /\ starts_with(to_lowercase(item.name), to_lowercase(q))

C8_PrefixExact ==
    QueriesReturn =>
        \A q \in Patterns, max \in AmpleLimits :
            LET res == search_prefix(q, max)
            IN  /\ \A x \in Values(res) : x \in Values(items) /\ NameStartsWith(x, q)
                /\ \A x \in Values(items) :
                       NameStartsWith(x, q) => Occurrences(res, x) = Occurrences(items, x)

\* two live items under one trie key, found by a proper prefix written in
\* the other case, next to a live item the prefix does not cover, after a
\* removal
C8_Witness ==
    /\ QueriesReturn
    /\ Len(items) = MaxItems
    /\ \E k \in DOMAIN name_trie : Len(name_trie[k]) >= 2
    /\ Len(search_prefix(<<"A", ".">>, MaxItems)) = 1
    /\ \E i \in 1..Len(items) : IsTombstone(items[i])
    /\ \E i \in 1..Len(items) :
        /\ ~IsTombstone(items[i])
        /\ items[i].name = NameLowerAb
        /\ search_prefix(<<"A", ".">>, MaxItems) = <<items[i]>>

----------------------------------------------------------------------------
(* C9: save_to_file followed by load_from_file into a fresh index yields   *)
(* the same multiset of non-tombstoned items (name, path, file_ref,        *)
(* parent_ref, size, is_dir, mtime), with name_lower recomputed from name, *)
(* and the same item_count.                                                *)

\* the seven persisted fields of an item
Persisted(item) ==
    <<item.name, item.path, item.file_ref, item.parent_ref, item.size,
      item.is_dir, item.mtime>>

LiveCopies(its, fields) ==
    Cardinality({i \in 1..Len(its) : ~IsTombstone(its[i]) /\ Persisted(its[i]) = fields})

\* the item vector of a fresh index that loads what this index saves
Reloaded == BuildIndex(Deserialize(Serialize(items))).items

C9_SaveLoadRoundTrip ==
    QueriesReturn =>
        LET loaded == Reloaded
        IN  /\ \A x \in Values(items) \cup Values(loaded) :
                   ~IsTombstone(x) =>
                       LiveCopies(loaded, Persisted(x)) = LiveCopies(items, Persisted(x))
            /\ \A x \in Values(loaded) :
                   ~IsTombstone(x) => x.name_lower = to_lowercase(x.name)
            /\ Cardinality({i \in 1..Len(loaded) : ~IsTombstone(loaded[i])}) = item_count

\* an index that was loaded from a blob holding a tombstone and a live item
\* whose name differs from its case-folded form
C9_Witness ==
    /\ QueriesReturn
    /\ ~dirty
    /\ blob = {Serialize(items)}
    /\ \E i, j \in 1..Len(items) :
        /\ IsTombstone(items[i])
        /\ items[i].file_ref \in DOMAIN file_ref_map
        /\ file_ref_map[items[i].file_ref] = i - 1
        /\ ~IsTombstone(items[j])
        /\ items[j].name # to_lowercase(items[j].name)
        /\ items[j].mtime # 0

----------------------------------------------------------------------------
(* C10: is_dirty() == false implies that the last written blob holds the   *)
(* current item vector (an index that was never built has nothing to       *)
(* write), under any interleaving of mutators with save_to_file.           *)

C10_CleanMeansSaved ==
    ~is_dirty =>
        \/ blob = {Serialize(items)}
        \/ blob = NoBlob /\ items = << >>

----------------------------------------------------------------------------
(* C11: the methods take their locks in one fixed order (items,            *)
(* file_ref_map, ext_index, name_trie), so that no set of concurrently     *)
(* running methods (build, add_file, remove_file, remove_file_by_path,     *)
(* search_prefix, search_by_extension, search_contains, save_to_file)      *)
(* reaches a state in which each of them waits for a lock that another one *)
(* of the set holds.                                                       *)

\* thread t is about to take a lock
Waiting(t) == thread_call[t] # Idle /\ NextStep(t).kind = "acquire"

\* every thread of the set waits for a lock held by another thread of the set
WaitForEachOther(S) ==
    \A t \in S :
        /\ Waiting(t)
        /\ Blockers(NextStep(t).lock, NextStep(t).mode) \cap (S \ {t}) # {}

C11_NoLockCycle == \A S \in SUBSET Threads : S # {} => ~WaitForEachOther(S)

----------------------------------------------------------------------------
(* C19: after delete_file(path) returns for a path that has a live entry,  *)
(* no search_contains call returns an item with that path, and the blob    *)
(* holds the item vector without that entry.                               *)

\* the item's path is the argument, up to separators and case
HasPath(item, path) == to_lowercase(item.path) = to_lowercase(replace_slash(path))

C19_DeletedPathGone ==
    [][\A path \in DeletePaths :
           (delete_file(path) /\ PathMatches(items, path) # {}) =>
               /\ \A q \in Patterns, max \in ResultLimits :
                      \A x \in Values(search_contains(q, max))' : ~HasPath(x, path)
               /\ blob' = {Serialize(items')}
               /\ \A i \in 1..Len(items') : ~HasPath(items'[i], path)]_vars

----------------------------------------------------------------------------
(* C13, C15: get_changes_since over one batch of records                   *)

\* the classification by reason bits alone
ClaimedAction(reason) ==
    IF reason \cap {"FILE_DELETE", "RENAME_OLD_NAME"} # {} THEN {0}
    ELSE IF reason \cap {"RENAME_NEW_NAME", "FILE_CREATE"} # {} THEN {1}
    ELSE IF reason \cap {"DATA_EXTEND", "DATA_OVERWRITE"} # {} THEN {2}
    ELSE {}

\* the journal holds one record with an accepted name, and it has been read
SingleRead ==
    /\ Len(journal[TrackedDrive]) = 1
    /\ read_count = <<1>>
    /\ NameAccepted(journal[TrackedDrive][1].name)

EmittedActions == {changes[i].action : i \in 1..Len(changes)}

Low48(ref) == {b \in ref : b < 48}

\* the record passes the filters that come before the deduplication
Qualifies(rec) ==
    /\ NameAccepted(rec.name)
    /\ ReasonAction(rec.reason) # {}
    /\ ~is_recycle_bin_path(RecordPath(rec, DirPaths(TrackedDrive), TrackedDrive))

\* the (action, file_ref) pair of a record
Pair(rec) == <<ReasonAction(rec.reason), Low48(rec.file_ref)>>

\* the changes built from the first record of each pair, in journal order
RECURSIVE FirstChanges(_, _)
FirstChanges(records, i) ==
    IF i = 0 THEN << >>
    ELSE LET rec == records[i]
             first == /\ Qualifies(rec)
                      /\ \A j \in 1..(i - 1) :
                             Qualifies(records[j]) => Pair(records[j]) # Pair(rec)
         IN  IF first
             THEN Append(FirstChanges(records, i - 1),
                         FileChange(CHOOSE a \in ReasonAction(rec.reason) : TRUE,
                                    rec.is_dir,
                                    RecordPath(rec, DirPaths(TrackedDrive), TrackedDrive)))
             ELSE FirstChanges(records, i - 1)

\* the batch has been read by one get_changes_since call
BatchRead ==
    /\ poll_pc = "sleep"
    /\ read_count # << >>
    /\ \A i \in 1..Len(read_count) : read_count[i] = 1

\* C15: within one batch at most one change is emitted per (action,
\* file_ref) pair, and it is the change built from the first record with
\* that pair.
C15_FirstOfEachPair ==
    BatchRead =>
        changes = FirstChanges(journal[TrackedDrive], Len(journal[TrackedDrive]))

\* two records of one pair with different paths and a record of another
\* pair have been read, and two changes came out
C15_Witness ==
    /\ BatchRead
    /\ Len(changes) = 2
    /\ \E i, j \in 1..Len(journal[TrackedDrive]) :
        LET a == journal[TrackedDrive][i]
            b == journal[TrackedDrive][j]
        IN  /\ i < j
            /\ Qualifies(a) /\ Qualifies(b)
            /\ Pair(a) = Pair(b)
            /\ a.name # b.name

----------------------------------------------------------------------------
(* C14, C16: the successive polls of one volume                            *)

\* C14: across the polls of a volume every journal record is read in
\* exactly one poll: none is read twice, and once a poll is over none of
\* the records up to last_usn has been left out; also when the journal
\* grows between the header query and the read, and when a read fails.
\* Stated for a journal that has not been created again.
C14_EachRecordInOnePoll ==
    journal_id[TrackedDrive] = 1 =>
        \A i \in 1..Len(read_count) :
            /\ read_count[i] <= 1
            /\ (poll_pc = "sleep" /\ i <= last_usn) => read_count[i] = 1

\* the directory cache of the tracked volume was built under another
\* journal identifier than the volume has now
CachedIdDiffers ==
    /\ TrackedDrive \in DOMAIN DIR_CACHE
    /\ DIR_CACHE[TrackedDrive].journal_id # journal_id[TrackedDrive]

\* a poll whose header query succeeds comes to its end in this step
PollCompletes ==
    \/ /\ poll_query
       /\ current_usn' = NextUsn(TrackedDrive)
       /\ poll_pc' = "sleep"
    \/ /\ poll_read
       /\ TrackedDrive \in DOMAIN DIR_CACHE'
       /\ DIR_CACHE'[TrackedDrive].journal_id = journal_id[TrackedDrive]

\* C16: a poll that meets a journal identifier other than the cached one
\* rebuilds the directory cache under the new identifier and sets last_usn
\* to the next_usn of the new journal, also when that is smaller than the
\* old last_usn.
C16_ResetOnNewJournal ==
    [][(CachedIdDiffers /\ PollCompletes) =>
          /\ DIR_CACHE'[TrackedDrive].journal_id = journal_id'[TrackedDrive]
          /\ last_usn' = NextUsn(TrackedDrive)']_vars

----------------------------------------------------------------------------
(* C18: load_dir_cache                                                     *)

\* C18: load_dir_cache returns 1, with the persisted map installed for the
\* drive, only if the file's version is 1, its drive is the requested one
\* and its journal_id is the current one of the volume; otherwise it
\* returns 0 and DIR_CACHE stays as it was.
C18_LoadOnlyMatching ==
    [][\A d \in Drives :
          load_dir_cache(d) =>
              IF ffi_result' = {1}
              THEN /\ \A persisted \in dir_cache_file :
                          /\ persisted.version = 1
                          /\ persisted.drive = d
                          /\ persisted.journal_id = journal_id[d]
                          /\ DIR_CACHE'[d].paths = PathsFromPairs(persisted.paths)
                   /\ DIR_CACHE'[d].journal_id = journal_id[d]
              ELSE /\ ffi_result' = {0}
                   /\ DIR_CACHE' = DIR_CACHE]_vars

\* a file saved under the second journal of a volume has been loaded into
\* an empty DIR_CACHE
C18_Witness ==
    /\ ffi_result = {1}
    /\ DOMAIN DIR_CACHE = {TrackedDrive}
    /\ journal_id[TrackedDrive] = 2
    /\ DIR_CACHE[TrackedDrive].journal_id = 2
    /\ \E persisted \in dir_cache_file : persisted.paths = PathPairs(DirPaths(TrackedDrive))

----------------------------------------------------------------------------
(* C17, C20: which index gets registered                                   *)

\* the index file of the drive was written under another journal
\* identifier than the volume has now
StaleIndexFile(d) ==
    /\ d \in DOMAIN index_file
    /\ index_file[d].written_under # journal_id[d]

\* C17: initialising the index of a volume whose index file was written
\* under another journal identifier does not load the file: nothing is
\* registered from it and the volume is enumerated instead.
C17_StaleFileNotLoaded ==
    [][\A t \in Threads :
          (init_load(t) /\ StaleIndexFile(reg_call[t].drive)) =>
              /\ SEARCH_INDICES' = SEARCH_INDICES
              /\ reg_call'[t].pc = "scan"]_vars

\* thread t returns true from a forced rebuild in this step
ForceSucceeds(t) ==
    /\ reg_call[t].op = "force"
    /\ reg_call[t].pc # "done"
    /\ reg_call'[t].pc = "done"
    /\ reg_call'[t].result = {TRUE}

\* C20: when a forced rebuild of a volume reports success, the index
\* registered for the volume comes from an enumeration made after the
\* request and not from a file that existed before it, also when the old
\* file could not be deleted or another thread initialises the volume.
C20_RebuiltFromFreshScan ==
    [][\A t \in Threads :
          ForceSucceeds(t) =>
              /\ reg_call[t].drive \in DOMAIN SEARCH_INDICES'
              /\ t \notin SEARCH_INDICES'[reg_call[t].drive].old_for
              /\ ~SEARCH_INDICES'[reg_call[t].drive].from_file]_vars

----------------------------------------------------------------------------
(* C12: the events of a search_files call                                  *)

RECURSIVE SumRows(_)
SumRows(evs) == IF evs = << >> THEN 0 ELSE Head(evs).rows + SumRows(Tail(evs))

\* C12: after search_files has spawned the search, exactly one
\* search-complete event is eventually emitted, after the last search-batch
\* event, with the number of rows of all search-batch events; volumes
\* without an index are left out.  Stated on the state: search-complete
\* comes at most once, last, with the sum of the rows, and as long as it has
\* not been emitted some step of the search can be taken.
C12_CompleteAfterBatches ==
    /\ \A i \in 1..Len(events) :
           events[i].name = "search-complete" =>
               /\ i = Len(events)
               /\ events[i].rows = SumRows(SubSeq(events, 1, i - 1))
    /\ orch_pc = "done" =>
           events # << >> /\ events[Len(events)].name = "search-complete"
    /\ orch_pc \notin {"idle", "done"} => ENABLED SearchSteps

----------------------------------------------------------------------------
(* C21: the events of a build_index call                                   *)

\* the events so far are the beginning of: for each drive in turn one
\* building event and one completed or failed event, then one
\* index-rebuild-finished event whose counts add up to the number of drives
BuildEventsInOrder ==
    LET n == Len(build_drives)
    IN  /\ Len(build_events) <= 2 * n + 1
        /\ \A i \in 1..Len(build_events) :
            LET ev == build_events[i]
            IN  IF i = 2 * n + 1
                THEN /\ ev.name = "index-rebuild-finished"
                     /\ ev.success + ev.failed = n
                ELSE /\ ev.name = "index-building"
                     /\ ev.drive = build_drives[(i + 1) \div 2]
                     /\ IF i % 2 = 1 THEN ev.status = "building"
                        ELSE ev.status \in {"completed", "failed"}

\* C21: for a build_index call over drives d1..dn each drive gets one
\* building event followed by one completed or failed event before the next
\* drive starts, a failed drive does not stop the later ones, and one
\* index-rebuild-finished event comes last with success + failed = n.
\* Stated on the state: the events so far follow that order, the builder
\* that is done has emitted all of them, and the builder that is not done
\* can take a step.
C21_BuildEventsComplete ==
    /\ BuildEventsInOrder
    /\ build_pc = "done" => Len(build_events) = 2 * Len(build_drives) + 1
    /\ build_pc \notin {"idle", "done"} => ENABLED BuildSteps

----------------------------------------------------------------------------
(* C22: cancellation of a search                                           *)

\* C22: once the caller has dropped the stream sink, the channel is closed
\* and no search task sends a further batch: a send after the drop fails,
\* so nothing is added to the channel and nothing more is counted.
C22_NoBatchAfterDrop ==
    [][~sink_open => (Len(channel') <= Len(channel) /\ total_count' = total_count)]_vars

----------------------------------------------------------------------------
(* C23, C24: what an enumeration of the volume puts into the index         *)

CadTokens ==
    { <<"c", "a", "d", "2", "0", "1">>, <<"c", "a", "d", "2", "0", "2">>,
      <<"a", "u", "t", "o", "c", "a", "d", "_", "2", "0", "1">>,
      <<"a", "u", "t", "o", "c", "a", "d", "_", "2", "0", "2">>,
      <<"t", "a", "n", "g", "e", "n", "t">> }

\* a directory whose case-folded name is in the exclusion set or contains a token
ExcludedDirectory(e) ==
    /\ e.is_dir
    /\ LET folded == to_lowercase(e.filename)
       IN  folded \in SKIP_DIRS \/ \E token \in CadTokens : contains(folded, token)

EntriesWithRef(entries, ref) ==
    { entries[i] : i \in { j \in DOMAIN entries : entries[j].file_ref = ref } }

\* the entry under ref, or one on its parent chain towards the root, is an
\* excluded directory; depth bounds the walk along the chain
RECURSIVE IsOrIsUnderExcluded(_, _, _)
IsOrIsUnderExcluded(entries, ref, depth) ==
    /\ ref # RootRef
    /\ depth > 0
    /\ \E e \in EntriesWithRef(entries, ref) :
           ExcludedDirectory(e) \/ IsOrIsUnderExcluded(entries, e.parent_ref, depth - 1)

\* C23: after an enumeration of any set of MFT records, no item of the index
\* is, or has on its parent chain to the root, a directory whose case-folded
\* name is in the exclusion set or contains one of the CAD tokens
C23_NoItemUnderExcluded ==
    enum_done =>
        \A i \in 1..Len(items) :
            ~IsOrIsUnderExcluded(mft_records, items[i].file_ref, Len(mft_records))

\* an enumeration that left out an entry whose parent is not excluded but
\* whose grandparent, a directory of the root, is
C23_Witness ==
    /\ enum_done
    /\ \E i \in DOMAIN mft_records :
           LET e == mft_records[i]
           IN  /\ \E p \in EntriesWithRef(mft_records, e.parent_ref) :
                      /\ ~ExcludedDirectory(p)
                      /\ p.is_dir
                      /\ \E g \in EntriesWithRef(mft_records, p.parent_ref) :
                             ExcludedDirectory(g) /\ g.parent_ref = RootRef
               /\ \A j \in 1..Len(items) : items[j].file_ref # e.file_ref

\* the tail of the name from its final '.', lowercased, when it is at most 10
\* bytes long and is in the skip-extension set
HasSkippedExtension(name) ==
    /\ contains(name, <<".">>)
    /\ LET tail == SubSeq(name, rfind(name, "."), Len(name))
       IN  Len(tail) <= 10 /\ to_lowercase(tail) \in SKIP_EXTS

\* every ancestor directory up to file reference 5 is enumerated and not excluded
RECURSIVE AncestorsPresent(_, _, _)
AncestorsPresent(records, parent_ref, depth) ==
    \/ parent_ref = RootRef
    \/ /\ depth > 0
       /\ \E p \in EntriesWithRef(records, parent_ref) :
              /\ p.is_dir
              /\ ~ExcludedDirectory(p)
              /\ AncestorsPresent(records, p.parent_ref, depth - 1)

Retained(records, r) ==
    /\ AncestorsPresent(records, r.parent_ref, Len(records))
    /\ ~ExcludedDirectory(r)
    /\ ~(~r.is_dir /\ HasSkippedExtension(r.filename))

RetainedRecords ==
    LET records == scan_usn_journal_all(mft_records)
    IN  SelectSeq(records, LAMBDA r : Retained(records, r))

\* C24: after the rebuild the index holds exactly one item per enumerated
\* record that is retained, and item_count is the number of those records
C24_OneItemPerRetained ==
    enum_done =>
        LET retained == RetainedRecords
        IN  /\ Len(items) = Len(retained)
            /\ \A i \in 1..Len(items) :
                   /\ items[i].file_ref = retained[i].file_ref
                   /\ items[i].name = retained[i].filename
                   /\ items[i].is_dir = retained[i].is_dir
            /\ item_count = Len(retained)

\* an enumeration with a retained file next to a file that is dropped for
\* its extension, both below a retained directory
C24_Witness ==
    /\ enum_done
    /\ \E i, j \in 1..Len(mft_records) :
           /\ ~mft_records[i].is_dir
           /\ ~mft_records[j].is_dir
           /\ mft_records[i].parent_ref = mft_records[j].parent_ref
           /\ mft_records[i].parent_ref # RootRef
           /\ HasSkippedExtension(mft_records[i].filename)
           /\ \E k \in 1..Len(items) : items[k].file_ref = mft_records[j].file_ref
           /\ \E k \in 1..Len(items) : items[k].file_ref = mft_records[j].parent_ref

----------------------------------------------------------------------------
(* C25 .. C28: the filters of a query                                      *)

\* C25: for every query, parsing the pure_keyword that parse returned gives
\* empty filters and the same pure_keyword
C25_KeywordParsesToItself ==
    query_pc \in {"parsed", "searched"} =>
        parse(parse_result.pure_keyword) =
            [pure_keyword |-> parse_result.pure_keyword, filters |-> DefaultFilters]


\* the query is one size filter with the comparison and the bound in bytes
\* that its text states
SizeQueries ==
    { [text |-> <<"s", "i", "z", "e", ":", ">", "1", "k", "b">>, less |-> FALSE, bound |-> 1024],
      [text |-> <<"s", "i", "z", "e", ":", "<", "1", "k", "b">>, less |-> TRUE, bound |-> 1024],
      [text |-> <<"s", "i", "z", "e", ":", ">", "1", "g", "b">>, less |-> FALSE, bound |-> 1073741824],
      [text |-> <<"s", "i", "z", "e", ":", ">", "0", "k", "b">>, less |-> FALSE, bound |-> 0] }

\* the items of the volume that are not removed
LiveRuns == SelectSeq(volume_items, LAMBDA r : ~IsTombstone(r.item))

RECURSIVE RunTotal(_)
RunTotal(runs) == IF runs = << >> THEN 0 ELSE Head(runs).count + RunTotal(Tail(runs))

\* the rows as the items they were made from
Rows(runs) == [i \in 1..Len(runs) |-> ItemRun(SearchResult(runs[i].item), runs[i].count)]

\* C26: a query size:>NUM{kb|mb|gb} matches exactly the items whose size is
\* strictly greater than the bound in bytes, and size:<NUM{unit} exactly
\* those strictly smaller
C26_SizeStrictlyBeyondBound ==
    \A sq \in SizeQueries :
        (query_pc = "searched" /\ query_text = sq.text /\ RunTotal(LiveRuns) <= WILDCARD_LIMIT) =>
            task_results =
                Rows(SelectSeq(LiveRuns,
                               LAMBDA r : IF sq.less THEN r.item.size < sq.bound
                                          ELSE r.item.size > sq.bound))

\* the lowercased text after the final '.', empty for a name without '.'
ExtensionAfterFinalDot(name) ==
    IF contains(name, <<".">>)
    THEN to_lowercase(SubSeq(name, rfind(name, ".") + 1, Len(name)))
    ELSE EmptyString

ExtQueries ==
    { [text |-> <<"e", "x", "t", ":", "b">>, ext |-> <<"b">>],
      [text |-> <<"e", "x", "t", ":", "c">>, ext |-> <<"c">>] }

\* the volume has no name that starts with its only dot
NoDotfile ==
    \A i \in 1..Len(volume_items) :
        LET name == volume_items[i].item.name
        IN  ~(name # EmptyString /\ rfind(name, ".") = 1)

\* C27: for an empty keyword and ext:EXT the rows of a volume are exactly its
\* non-tombstoned items whose extension is EXT, whatever the number of items
\* of the index, when at most 50000 items have that extension
C27_AllOfExtensionDelivered ==
    \A eq \in ExtQueries :
        LET wanted == SelectSeq(LiveRuns,
                                LAMBDA r : ExtensionAfterFinalDot(r.item.name) = eq.ext)
        IN  (/\ query_pc = "searched"
             /\ query_text = eq.text
             /\ NoDotfile
             /\ RunTotal(wanted) <= WILDCARD_LIMIT) =>
                task_results = Rows(wanted)

\* the items of the volume one by one, for volumes without long runs
VolumeItemsBuilt ==
    BuildIndex([i \in 1..Len(LiveRuns) |->
                    [LiveRuns[i].item EXCEPT !.name_lower = EmptyString, !.file_ref = i]])

\* SearchIndex::search_by_extension on the built index
BuiltByExtension(st, ext, max_results) ==
    IF to_lowercase(ext) \in DOMAIN st.ext_index
    THEN FilterMapGet(st.items, Take(st.ext_index[to_lowercase(ext)], max_results))
    ELSE << >>

\* C28: the extension of a name is the lowercased text after its final '.',
\* empty without '.', in the extension map and in the ext: filter alike:
\* search_by_extension(e, max) returns the items with that extension, and
\* the filter ext:e keeps them
C28_OneExtensionEverywhere ==
    (query_pc = "searched" /\ RunTotal(LiveRuns) = Len(LiveRuns)) =>
        LET st == VolumeItemsBuilt
        IN  /\ \A e \in {EmptyString, <<"b">>, <<"B">>, <<"c">>} :
                   BuiltByExtension(st, e, Len(st.items)) =
                       SelectSeq(st.items,
                                 LAMBDA it : ExtensionAfterFinalDot(it.name) = to_lowercase(e))
            /\ \A eq \in ExtQueries :
                   query_text = eq.text =>
                       task_results =
                           Rows(SelectSeq(LiveRuns,
                                    LAMBDA r : ExtensionAfterFinalDot(r.item.name) = eq.ext))

----------------------------------------------------------------------------
(* C29, C30: what a batch of the change tracker leaves in the index        *)

\* the journal positions of the batch the poller read last
BatchPositions == (batch_start + 1)..last_usn

\* the directory paths the tracker has cached for the volume
CachedPaths ==
    IF TrackedDrive \in DOMAIN DIR_CACHE THEN DIR_CACHE[TrackedDrive].paths ELSE EmptyMap

\* the followed files whose parent directory is in the cache
CachedParentRefs == {ref \in FsRefs : FsParent(ref) \in DOMAIN CachedPaths}

\* the followed files a record of the batch is about
TouchedRefs ==
    {ref \in FsRefs : \E i \in BatchPositions : journal[TrackedDrive][i].file_ref = RefBits(ref)}

\* the index has a live entry under the path
IndexedUnder(path) == \E i \in Live : items[i].path = path

\* the poller has read every record of the journal, the last batch was not
\* empty, and the change loop has run through it
BatchApplied ==
    /\ poll_pc = "sleep"
    /\ changes = << >>
    /\ ~add_file_blocked
    /\ batch_start < last_usn
    /\ last_usn = Len(journal[TrackedDrive])
    /\ \A i \in 1..last_usn : read_count[i] >= 1

\* C29: after the change tracker has applied a batch, each file touched in
\* the batch is indexed under the name it has on disk and under no other
\* name, and is not indexed when it no longer exists
C29_IndexMatchesDisk ==
    BatchApplied =>
        \A ref \in TouchedRefs \cap CachedParentRefs :
            \A name \in FsNames :
                IndexedUnder(FsDir(ref) \o name) <=> disk[ref] = name

\* a record of the batch whose parent is cached gives the path
EmittedForCached(path) ==
    \E i \in (batch_start + 1)..Len(journal[TrackedDrive]) :
        LET rec == journal[TrackedDrive][i]
        IN  /\ rec.parent_ref \in DOMAIN CachedPaths
            /\ RecordPath(rec, CachedPaths, TrackedDrive) = path

\* no record of the journal is about the file
NeverTouched(ref) ==
    \A i \in 1..Len(journal[TrackedDrive]) :
        journal[TrackedDrive][i].file_ref # RefBits(ref)

\* C30: a record whose parent reference is not in the directory cache gives
\* no change, and so a file in the volume root that no record is about keeps
\* its live index entry
C30_UncachedParentDropped ==
    /\ \A k \in 1..Len(changes) : EmittedForCached(changes[k].path)
    /\ \A ref \in CachedParentRefs :
           NeverTouched(ref) /\ disk[ref] # EmptyString =>
               IndexedUnder(FsDir(ref) \o disk[ref])

----------------------------------------------------------------------------
(* C31, C33: the calls of an enumeration and what becomes of its records    *)

\* a FSCTL_ENUM_USN_DATA call has been made
CallMade == last_call # NoCall

\* the call returned the cursor it was issued with
CursorStalled == last_call.ok /\ last_call.br > 8 /\ last_call.next = last_call.cursor

\* C31: the loop of the enumeration has stopped after a call that failed,
\* after a call that returned no more than the 8-byte header, and after a
\* call whose next-cursor equals the cursor it was issued with, so that no
\* sequence of responses keeps it going for ever
C31_LoopStopsOnStall ==
    CallMade =>
        /\ ~last_call.ok => scan_pc # "enum"
        /\ last_call.br <= 8 => scan_pc # "enum"
        /\ CursorStalled => scan_pc # "enum"

InitReturned == init_returned # {}

Registered == TrackedDrive \in DOMAIN SEARCH_INDICES

\* the collected records that are retained for the index
CollectedRetained == SelectSeq(scan_records, LAMBDA r : Retained(scan_records, r))

\* C33: when opening the volume or the first control-code call fails the
\* enumeration returns an error, init_search_index_internal returns false
\* and no index is registered; when a later control-code call fails the
\* enumeration ends with the records collected so far, which are indexed
\* and registered
C33_FailuresOfEnumeration ==
    /\ scan_failed \in {"open", "query"} => scan_pc = "err"
    /\ scan_failed = "enum" => scan_pc = "ok"
    /\ InitReturned /\ scan_failed \in {"open", "query"} =>
           /\ init_returned = {FALSE}
           /\ ~Registered
           /\ items = << >>
    /\ InitReturned /\ scan_failed = "enum" =>
           /\ init_returned = {TRUE}
           /\ Registered
           /\ SEARCH_INDICES[TrackedDrive].item_count = Len(CollectedRetained)
           /\ Len(items) = Len(CollectedRetained)
           /\ \A i \in 1..Len(items) :
                  /\ items[i].file_ref = CollectedRetained[i].file_ref
                  /\ items[i].name = CollectedRetained[i].filename

\* an enumeration whose third or later FSCTL_ENUM_USN_DATA call failed,
\* after a directory and a file in it were collected
C33_Witness ==
    /\ InitReturned
    /\ scan_failed = "enum"
    /\ Len(scan_records) = 2
    /\ Len(items) = 2

----------------------------------------------------------------------------
(* C32: the breadth-first pass of path reconstruction                       *)

\* C32: for every finite set of records, also one with a cycle of parent
\* references or a directory record with file reference 5, the pass takes
\* each directory from the queue at most once, and so comes to an end
C32_EachDirectoryOnce == \A r \in WalkRefs : visits[r] <= 1

----------------------------------------------------------------------------
(* C34: one enumeration and one insert per volume                           *)

\* the thread is past the checks of init_search_index_internal: it
\* enumerates the volume, or holds the index it built from the enumeration
Scanning(t) == reg_call[t].pc \in {"scan", "insert"}

NoTwoScans ==
    \A t, u \in Threads :
        t # u /\ reg_call[t].drive = reg_call[u].drive => ~(Scanning(t) /\ Scanning(u))

\* thread t inserts over an index that the change tracker has changed
ReplacesMutated(t) ==
    /\ init_insert(t)
    /\ reg_call[t].drive \in DOMAIN SEARCH_INDICES
    /\ SEARCH_INDICES[reg_call[t].drive].mutated

\* C34: no two concurrent init_search_index_internal calls for a volume
\* both enumerate it, and no insert into SEARCH_INDICES replaces an index
\* that the change tracker has already changed
C34_OneBuildPerVolume ==
    /\ []NoTwoScans
    /\ [][\A t \in Threads : ~ReplacesMutated(t)]_vars

----------------------------------------------------------------------------
(* C35: one polling task per drive                                          *)

\* C35: after any number of start_file_monitoring calls at most one polling
\* task runs per drive, and each record of a journal is applied to the index
\* of its drive by one task only
C35_OnePollerPerDrive ==
    \A d \in Drives :
        /\ Len(pollers[d]) <= 1
        /\ \A i \in 1..MaxJournal : applied[d][i] <= 1

----------------------------------------------------------------------------
(* C36: paths of live items                                                 *)

\* the live items whose path is path, compared as remove_file_by_path does
LiveAt(path) == { i \in Live : to_lowercase(items[i].path) = to_lowercase(path) }

\* C36: after any sequence of builds and change-tracker batches no two live
\* items of an index have the same path, so remove_file_by_path, which stops
\* at the first match, leaves no live entry for the path it removes
C36_LivePathsUnique ==
    \A i \in Live : LiveAt(items[i].path) = {i}

----------------------------------------------------------------------------
(* C37: the item vector between two builds                                  *)

\* the slot indices stored in the name structure, the extension map and the
\* file-ref map
StoredSlots ==
    UNION { Values(name_trie[k]) : k \in DOMAIN name_trie }
    \cup UNION { Values(ext_index[k]) : k \in DOMAIN ext_index }
    \cup { file_ref_map[r] : r \in DOMAIN file_ref_map }

SlotsValid == \A idx \in StoredSlots : HasSlot(items, idx)

\* a step of build, directly or through load_from_file
RebuildStep ==
    \/ \E new_items \in BuildInputs : build(new_items)
    \/ load_from_file

\* the vector is not shortened and every item stays in its slot, as it was
\* or as a tombstone
AppendOnly ==
    /\ Len(items') >= Len(items)
    /\ \A i \in 1..Len(items) : items'[i] \in {items[i], Tombstoned(items[i])}

\* C37: between two builds the item vector is append-only (add_file,
\* remove_file and remove_file_by_path never shorten it or move an item to
\* another slot), and in every reachable state every slot index stored in
\* the name structure, the extension map and the file-ref map is a valid
\* position of the item vector
C37_AppendOnlyBetweenBuilds ==
    /\ []SlotsValid
    /\ [][RebuildStep \/ AppendOnly]_vars

\* an item was added behind a slot that a removal has tombstoned
C37_Witness ==
    /\ pending_dirty > 0
    /\ Len(items) >= 2
    /\ IsTombstone(items[1])
    /\ ~IsTombstone(items[Len(items)])
    /\ (Len(items) - 1) \in StoredSlots

----------------------------------------------------------------------------
(* C39: the result limit of realtime_search                                 *)

\* C39: realtime_search delivers at most 10000 results over all search
\* paths; every search-batch event has at most 50 rows, the rows of all
\* search-batch events add up to the returned list, and the search-complete
\* count equals its length
C39_RealtimeLimit ==
    /\ rt_results <= REALTIME_LIMIT
    /\ rt_max_batch <= REALTIME_BATCH_SIZE
    /\ rt_pc = "done" =>
           /\ rt_rows = rt_returned
           /\ rt_complete = rt_returned

----------------------------------------------------------------------------
(* C38: the result of remove_file                                           *)

\* what remove_file(file_ref) returns: true when file_ref_map holds the key
RemoveFileResult(file_ref) == file_ref \in DOMAIN file_ref_map

\* the file references of the non-tombstoned items
LiveRefs == { items[i].file_ref : i \in Live }

\* C38: remove_file(r) returns true exactly when a non-tombstoned item with
\* file_ref r exists at the time of the call, in every reachable state,
\* including an index loaded from a blob that was saved after removals
C38_RemoveFileResult ==
    QueriesReturn =>
        \A r \in LiveRefs \cup DOMAIN file_ref_map :
            RemoveFileResult(r) <=> r \in LiveRefs

----------------------------------------------------------------------------
(* C40: the mtime lower bound of a dm: filter                               *)

\* C40: for every dm: value (today, yesterday, week, month, year, NUMd,
\* NUMh, NUMm) the mtime lower bound is obtained without unsigned overflow
\* or underflow and lies between 0 and the current time
C40_DateBoundInRange ==
    dm_outcome # NoOutcome =>
        /\ dm_outcome.kind = "some"
        /\ dm_outcome.secs >= 0
        /\ dm_outcome.secs <= Now

====
